---- MODULE Spec2Model ----
(***************************************************************************)
(* A model of the fourengine Connect-4 solver: the bitboard primitives,    *)
(* the position type, the score algebra, the two-level transposition       *)
(* table, the negamax search engine and the opening book.                  *)
(*                                                                         *)
(* A 64-bit unsigned integer (BoardInteger = u64) is modelled as the set   *)
(* of the indices of its one bits, a subset of 0..63, so that every        *)
(* bitwise operator and every wrapping addition keeps the width of the     *)
(* machine word.  Small machine integers (plies, counters, table indices)  *)
(* are plain integers.                                                      *)
(***************************************************************************)
EXTENDS Integers, Sequences, FiniteSets, TLC

VARIABLES position, ply, trans_table, work_count, outcome, hist, solves, book

vars == <<position, ply, trans_table, work_count, outcome, hist, solves, book>>

(***************************************************************************)
(* u64 arithmetic on bit sets                                              *)
(***************************************************************************)
WORD_BITS == 64

Word == 0..(WORD_BITS - 1)

Zero == {}

BitAnd(a, b) == a \cap b

BitOr(a, b) == a \cup b

BitXor(a, b) == (a \ b) \cup (b \ a)

BitNot(a) == Word \ a

Shl(a, s) == {i + s : i \in {j \in a : j + s < WORD_BITS}}

Shr(a, s) == {i - s : i \in {j \in a : j >= s}}

SetMax(S) == CHOOSE m \in S : \A n \in S : n <= m

SetMin(S) == CHOOSE m \in S : \A n \in S : m <= n

\* wrapping addition modulo 2^64.  A carry is generated where both operands
\* have a one; it runs upwards through every position where at least one
\* operand has a one and is absorbed at the first position where both have a
\* zero, or is lost past bit 63.
Add(a, b) ==
    LET absorbing == (Word \ (a \cup b)) \cup {WORD_BITS}
        carries == UNION {(g + 1)..SetMin({k \in absorbing : k > g}) : g \in a \cap b}
    IN  {i \in Word : ((i \in a) # (i \in b)) # (i \in carries)}

\* wrapping subtraction modulo 2^64.  A borrow is generated where the
\* subtrahend has a one and the minuend a zero; it runs upwards until the first
\* position where the minuend has a one and the subtrahend a zero.
Sub(a, b) ==
    LET absorbing == (a \ b) \cup {WORD_BITS}
        borrows == UNION {(g + 1)..SetMin({k \in absorbing : k > g}) : g \in b \ a}
    IN  {i \in Word : ((i \in a) # (i \in b)) # (i \in borrows)}

count_ones(a) == Cardinality(a)

trailing_zeros(a) == IF a = {} THEN WORD_BITS ELSE SetMin(a)

\* unsigned comparison a < b
Less(a, b) == a # b /\ SetMax(BitXor(a, b)) \in b

GreaterEq(a, b) == ~Less(a, b)

RECURSIVE FromIntAt(_, _)
FromIntAt(n, i) ==
    IF n = 0 THEN {}
    ELSE (IF n % 2 = 1 THEN {i} ELSE {}) \cup FromIntAt(n \div 2, i + 1)

\* the word holding a small non-negative integer
FromInt(n) == FromIntAt(n, 0)

\* the value of the 13 bits of a from bit lo upwards
RECURSIVE LimbAt(_, _, _)
LimbAt(a, lo, n) ==
    IF n = 0 THEN 0
    ELSE (IF lo \in a THEN 1 ELSE 0) + 2 * LimbAt(a, lo + 1, n - 1)

\* long division of a word by a small positive divisor d (d < 2^17), 13 bits
\* of the dividend at a time from the top; r is the remainder carried down
RECURSIVE DivModAt(_, _, _, _, _)
DivModAt(a, d, lo, q, r) ==
    IF lo < 0 THEN [quot |-> q, rem |-> r]
    ELSE LET r2 == r * 8192 + LimbAt(a, lo, 13)
         IN  DivModAt(a, d, lo - 13, q \cup Shl(FromInt(r2 \div d), lo), r2 % d)

\* a / d and a % d for a word a
DivMod(a, d) == DivModAt(a, d, 52, {}, 0)

(***************************************************************************)
(* Board geometry and masks                                                *)
(***************************************************************************)
BOARD_WIDTH == 7

BOARD_HEIGHT == 6

BIT_HEIGHT == BOARD_HEIGHT + 1

POSITION_BITS == (BOARD_HEIGHT + 1) * BOARD_WIDTH

ALL_BITS == 0..(BIT_HEIGHT * BOARD_WIDTH - 1)

FIRST_COLUMN == 0..(BIT_HEIGHT - 1)

BOTTOM_ROW == {BIT_HEIGHT * x : x \in 0..(BOARD_WIDTH - 1)}

GUTTER_ROW == Shl(BOTTOM_ROW, BOARD_HEIGHT)

FULL_BOARD == BitXor(ALL_BITS, GUTTER_ROW)

LEFT_HALF ==
    BitOr(BitOr(FIRST_COLUMN, Shl(FIRST_COLUMN, BIT_HEIGHT)),
          BitOr(Shl(FIRST_COLUMN, 2 * BIT_HEIGHT), Shl(FIRST_COLUMN, 3 * BIT_HEIGHT)))

\* BOTTOM_ROW * 0b010101 and BOTTOM_ROW * 0b101010
ODD_ROWS == BitOr(BOTTOM_ROW, BitOr(Shl(BOTTOM_ROW, 2), Shl(BOTTOM_ROW, 4)))

EVEN_ROWS == BitOr(Shl(BOTTOM_ROW, 1), BitOr(Shl(BOTTOM_ROW, 3), Shl(BOTTOM_ROW, 5)))

(***************************************************************************)
(* Score                                                                   *)
(***************************************************************************)
Unknown == 0

Loss == 1

DrawOrLoss == 2

Draw == 3

DrawOrWin == 4

Win == 5

Score == {Unknown, Loss, DrawOrLoss, Draw, DrawOrWin, Win}

is_exact(s) == s = Loss \/ s = Draw \/ s = Win

\* a score passed on without changing sides
score_same(s) == s

score_flip(s) ==
    CASE s = Unknown -> Unknown
      [] s = Draw -> Draw
      [] s = Loss -> Win
      [] s = Win -> Loss
      [] s = DrawOrLoss -> DrawOrWin
      [] s = DrawOrWin -> DrawOrLoss

\* the 3-bit field value n (a word) decoded as a score
from_u64_fast(n) ==
    CASE n = FromInt(1) -> Loss
      [] n = FromInt(2) -> DrawOrLoss
      [] n = FromInt(3) -> Draw
      [] n = FromInt(4) -> DrawOrWin
      [] n = FromInt(5) -> Win
      [] OTHER -> Unknown

(***************************************************************************)
(* Bitboard                                                                *)
(***************************************************************************)
\* four in a row looked for in columns and rows only
has_won_straight(board) ==
    LET vertical == BitAnd(board, Shr(board, 1))
        horizontal == BitAnd(board, Shr(board, BIT_HEIGHT))
    IN  BitOr(BitAnd(vertical, Shr(vertical, 2)),
              BitAnd(horizontal, Shr(horizontal, 2 * BIT_HEIGHT))) # Zero

has_won(board) ==
    LET vertical == BitAnd(board, Shr(board, 1))
        horizontal == BitAnd(board, Shr(board, BIT_HEIGHT))
        SLASH_SHIFT == BIT_HEIGHT + 1
        BACKSLASH_SHIFT == BIT_HEIGHT - 1
        slash == BitAnd(board, Shr(board, SLASH_SHIFT))
        backslash == BitAnd(board, Shr(board, BACKSLASH_SHIFT))
        result == BitOr(BitOr(BitAnd(vertical, Shr(vertical, 2)),
                              BitAnd(horizontal, Shr(horizontal, 2 * BIT_HEIGHT))),
                        BitOr(BitAnd(slash, Shr(slash, 2 * SLASH_SHIFT)),
                              BitAnd(backslash, Shr(backslash, 2 * BACKSLASH_SHIFT))))
    IN  result # Zero

\* the cells that start a line of four, in place of the cells of the line
win_line_start(board, shift_amount) ==
    LET half == BitAnd(board, Shr(board, shift_amount))
    IN  BitAnd(half, Shr(half, 2 * shift_amount))

win_line(board, shift_amount) ==
    LET half == BitAnd(board, Shr(board, shift_amount))
        fourth == BitAnd(half, Shr(half, 2 * shift_amount))
        helper == BitOr(fourth, Shl(fourth, shift_amount))
    IN  BitOr(helper, Shl(helper, 2 * shift_amount))

get_won_cells(board) ==
    LET vertical == win_line(board, 1)
        horizontal == win_line(board, BIT_HEIGHT)
        slash == win_line(board, BIT_HEIGHT + 1)
        backslash == win_line(board, BIT_HEIGHT - 1)
    IN  BitOr(BitOr(vertical, horizontal), BitOr(slash, backslash))

is_legal(board) == BitAnd(GUTTER_ROW, board) = Zero

set_disc(board, x, y) ==
    LET bit == Shl(FromInt(1), BOARD_WIDTH * x + y)
    IN  BitOr(board, bit)

RECURSIVE flip_loop(_, _, _)
flip_loop(pos, mirror, n) ==
    IF n = 0 THEN mirror
    ELSE flip_loop(Shr(pos, BIT_HEIGHT),
                   BitOr(Shl(mirror, BIT_HEIGHT), BitAnd(pos, FIRST_COLUMN)),
                   n - 1)

\* the board left as it is
unflipped(board) == board

bitboard_flip(board) == flip_loop(board, Zero, BOARD_WIDTH)

threat_line(board, shift_amount) ==
    LET right_helper == BitAnd(Shr(board, shift_amount), Shr(board, 2 * shift_amount))
        right_triple == BitAnd(right_helper, Shr(board, 3 * shift_amount))
        right_hole == BitAnd(right_helper, Shl(board, shift_amount))
        left_helper == BitAnd(Shl(board, shift_amount), Shl(board, 2 * shift_amount))
        left_triple == BitAnd(left_helper, Shl(board, 3 * shift_amount))
        left_hole == BitAnd(left_helper, Shr(board, shift_amount))
    IN  BitOr(BitOr(right_triple, right_hole), BitOr(left_triple, left_hole))

get_threat_cells(board) ==
    LET vertical == BitAnd(BitAnd(Shl(board, 1), Shl(board, 2)), Shl(board, 3))
        horizontal == threat_line(board, BIT_HEIGHT)
        diagonal1 == threat_line(board, BIT_HEIGHT + 1)
        diagonal2 == threat_line(board, BIT_HEIGHT - 1)
    IN  BitAnd(BitOr(BitOr(vertical, horizontal), BitOr(diagonal1, diagonal2)), FULL_BOARD)

keep_lowest_or_gutter(board) ==
    LET helper == BitOr(board, GUTTER_ROW)
    IN  BitAnd(helper, Add(BitNot(helper), BOTTOM_ROW))

\* the loop of get_silhouette: n more passes of tmp |= (tmp >> 1) & FULL_BOARD
RECURSIVE silhouette_loop(_, _)
silhouette_loop(tmp, n) ==
    IF n = 0 THEN tmp
    ELSE silhouette_loop(BitOr(tmp, BitAnd(Shr(tmp, 1), FULL_BOARD)), n - 1)

get_silhouette(board) == silhouette_loop(board, BOARD_HEIGHT - 1)

(***************************************************************************)
(* Position                                                                *)
(***************************************************************************)
Position(current, other) == [current |-> current, other |-> other]

empty == Position(Zero, Zero)

None == [none |-> TRUE]

\* the position handed on without swapping the boards
same_perspective(p) == p

to_other_perspective(p) == Position(p.other, p.current)

both(p) == BitOr(p.current, p.other)

get_height_cells(p) == Add(both(p), BOTTOM_ROW)

get_height_bit(p, column) ==
    LET column_mask == Shl(FIRST_COLUMN, BIT_HEIGHT * column)
    IN  BitAnd(get_height_cells(p), column_mask)

get_height(p, column) ==
    trailing_zeros(Add(Shr(both(p), BIT_HEIGHT * column), {0}))

drop(p, column) == BitOr(p.current, get_height_bit(p, column))

\* the drop without the legality test
drop_unchecked(p, column) == Position(p.other, drop(p, column))

position_after_drop(p, column) ==
    LET new_board == drop(p, column)
    IN  IF ~is_legal(new_board) THEN None
        ELSE Position(p.other, new_board)

\* a position in which a four-in-a-row is never seen
nobody_won(p) == FALSE

has_anyone_won(p) == has_won(p.current) \/ has_won(p.other)

position_flip(p) == Position(bitboard_flip(p.current), bitboard_flip(p.other))

get_ply(p) == count_ones(BitOr(p.current, p.other))

get_threats(p) ==
    LET threat_cells == get_threat_cells(p.current)
        empty_cells == BitXor(FULL_BOARD, both(p))
    IN  BitAnd(threat_cells, empty_cells)

\* the threat cells of the current player, playable or not
all_threat_cells(p) == get_threat_cells(p.current)

get_immediate_wins(p) ==
    BitAnd(get_threat_cells(p.current), get_height_cells(p))

count_threats(p) == count_ones(get_threats(p))

to_position_code(p) ==
    Add(Add(Add(BOTTOM_ROW, p.current), p.current), p.other)

from_position_code(code) ==
    LET silhouette == get_silhouette(code)
        filled == BitAnd(Shr(silhouette, 1), FULL_BOARD)
    IN  IF BitAnd(silhouette, BOTTOM_ROW) # BOTTOM_ROW THEN None
        ELSE Position(BitAnd(code, filled), BitAnd(BitNot(code), filled))

\* a string is a sequence of one-character strings
Whitespace == {" ", "\t", "\n", "\r"}

RECURSIVE trim_start(_)
trim_start(str) ==
    IF str # << >> /\ Head(str) \in Whitespace THEN trim_start(Tail(str)) ELSE str

RECURSIVE trim_end(_)
trim_end(str) ==
    IF str # << >> /\ str[Len(str)] \in Whitespace
    THEN trim_end(SubSeq(str, 1, Len(str) - 1))
    ELSE str

trim(str) == trim_end(trim_start(str))

UpperHex == <<"0", "1", "2", "3", "4", "5", "6", "7",
              "8", "9", "A", "B", "C", "D", "E", "F">>

LowerHex == <<"0", "1", "2", "3", "4", "5", "6", "7",
              "8", "9", "a", "b", "c", "d", "e", "f">>

\* format!("{:0>16X}", code): sixteen upper-case digits, the highest first
as_hex_string(p) ==
    LET code == to_position_code(p)
    IN  [i \in 1..(WORD_BITS \div 4) |-> UpperHex[LimbAt(code, WORD_BITS - 4 * i, 4) + 1]]

\* the value of a hexadecimal digit of either case, -1 for another character
hex_value(ch) ==
    IF \E v \in 1..16 : UpperHex[v] = ch \/ LowerHex[v] = ch
    THEN (CHOOSE v \in 1..16 : UpperHex[v] = ch \/ LowerHex[v] = ch) - 1
    ELSE -1

\* BoardInteger::from_str_radix(str, 16) for a str of at most sixteen digits
\* after an optional plus sign; not ok for an empty str or a bad digit
from_str_radix(str) ==
    LET digits == IF str # << >> /\ Head(str) = "+" THEN Tail(str) ELSE str
        n == Len(digits)
    IN  IF n = 0 \/ \E i \in 1..n : hex_value(digits[i]) < 0
        THEN [ok |-> FALSE, value |-> Zero]
        ELSE [ok |-> TRUE,
              value |-> UNION {Shl(FromInt(hex_value(digits[i])), 4 * (n - i)) : i \in 1..n}]

from_hex_string(str) ==
    LET trimmed == trim(str)
        code == from_str_radix(trimmed)
    IN  IF Len(trimmed) # WORD_BITS \div 4 THEN None
        ELSE IF ~code.ok THEN None
        ELSE from_position_code(code.value)

to_normalized_position_code(p) ==
    LET flipped == position_flip(p)
        code1 == to_position_code(p)
        code2 == to_position_code(flipped)
        symmetric == code1 = code2
    IN  IF Less(code1, code2) THEN <<code1, symmetric>> ELSE <<code2, symmetric>>

\* every legal move, the ones under an enemy threat included
every_legal_move(p) == BitAnd(get_height_cells(p), FULL_BOARD)

get_unblocked_moves(p) ==
    LET legal_moves == BitAnd(get_height_cells(p), FULL_BOARD)
        enemy_threats == get_threats(to_other_perspective(p))
    IN  BitAnd(BitNot(Shr(enemy_threats, 1)), legal_moves)

\* imitation taken as sustainable and harmless whatever the columns hold
autofinish_always(p, playable_moves) == DrawOrLoss

autofinish_score(p, playable_moves) ==
    LET empty_cells == BitNot(both(p))
        playable_gutter == BitAnd(Add(FULL_BOARD, playable_moves), GUTTER_ROW)
        unplayable_gutter == BitXor(playable_gutter, GUTTER_ROW)
        playable_columns ==
            Sub(BitOr(playable_gutter, Shr(unplayable_gutter, BOARD_HEIGHT)), BOTTOM_ROW)
        playable_area == BitAnd(playable_columns, empty_cells)
        even_enemy_threats ==
            BitAnd(BitAnd(get_threat_cells(p.other), EVEN_ROWS), playable_area)
        under_threats == Sub(keep_lowest_or_gutter(even_enemy_threats), BOTTOM_ROW)
        immediate_cells == BitAnd(get_height_cells(p), FULL_BOARD)
        obtainable_cells ==
            BitOr(immediate_cells, BitAnd(BitAnd(playable_area, under_threats), ODD_ROWS))
        current == BitOr(p.current, obtainable_cells)
        other == BitOr(p.other, BitAnd(Shl(obtainable_cells, 1), FULL_BOARD))
    IN  IF BitAnd(playable_moves, EVEN_ROWS) # Zero THEN Unknown
        ELSE IF has_won(current) THEN Unknown
        ELSE IF has_won(other) THEN Loss
        ELSE DrawOrLoss

Digits == <<"0", "1", "2", "3", "4", "5", "6", "7", "8", "9">>

Uppercase ==
    <<"A", "B", "C", "D", "E", "F", "G", "H", "I", "J", "K", "L", "M",
      "N", "O", "P", "Q", "R", "S", "T", "U", "V", "W", "X", "Y", "Z">>

Lowercase ==
    <<"a", "b", "c", "d", "e", "f", "g", "h", "i", "j", "k", "l", "m",
      "n", "o", "p", "q", "r", "s", "t", "u", "v", "w", "x", "y", "z">>

is_ascii_digit(ch) == \E i \in DOMAIN Digits : Digits[i] = ch

to_digit(ch) == (CHOOSE i \in DOMAIN Digits : Digits[i] = ch) - 1

is_ascii_alphabetic(ch) ==
    \E i \in DOMAIN Uppercase : Uppercase[i] = ch \/ Lowercase[i] = ch

to_ascii_uppercase(ch) ==
    IF \E i \in DOMAIN Lowercase : Lowercase[i] = ch
    THEN Uppercase[CHOOSE i \in DOMAIN Lowercase : Lowercase[i] = ch]
    ELSE ch

\* an upper-case letter as i32: 'A' is 65
letter_code(ch) == 64 + (CHOOSE i \in DOMAIN Uppercase : Uppercase[i] = ch)

\* Some(column)
SomeColumn(column) == [column |-> column]

\* the digits alone name a column
digit_to_column(ch) ==
    IF is_ascii_digit(ch) /\ to_digit(ch) - 1 >= 0 /\ to_digit(ch) - 1 < BOARD_WIDTH
    THEN SomeColumn(to_digit(ch) - 1)
    ELSE None

char_to_column(ch) ==
    LET column == IF is_ascii_digit(ch) THEN to_digit(ch) - 1
                  ELSE IF is_ascii_alphabetic(ch) THEN letter_code(to_ascii_uppercase(ch)) - 65
                  ELSE -1
    IN  IF column >= 0 /\ column < BOARD_WIDTH THEN SomeColumn(column) ELSE None

\* one turn of the loop of from_variation: the character's column, then the
\* drop into it; None once a character or a drop is invalid
variation_step(p, ch) ==
    IF p = None \/ char_to_column(ch) = None THEN None
    ELSE position_after_drop(p, char_to_column(ch).column)

\* the loop of from_variation over characters lo..hi of the variation, as a
\* fold that plays the first half and then the second half
RECURSIVE from_variation_at(_, _, _, _)
from_variation_at(variation, lo, hi, p) ==
    IF lo > hi THEN p
    ELSE IF lo = hi THEN variation_step(p, variation[lo])
    ELSE LET mid == (lo + hi) \div 2
             half == from_variation_at(variation, lo, mid, p)
         IN  IF half = None THEN None
             ELSE from_variation_at(variation, mid + 1, hi, half)

from_variation(variation) ==
    from_variation_at(trim(variation), 1, Len(trim(variation)), empty)

\* a list of one-based columns written as a variation, a digit for each
as_variation(columns) == [i \in DOMAIN columns |-> Digits[columns[i] + 1]]

(***************************************************************************)
(* MoveBitmap                                                              *)
(***************************************************************************)
count_moves(m) == count_ones(m)

get_left_half(m) == BitAnd(m, LEFT_HALF)

has_move(m, column) ==
    BitAnd(Shr(m, column * BIT_HEIGHT), FIRST_COLUMN) # Zero

(***************************************************************************)
(* Transposition table                                                     *)
(***************************************************************************)
SCORE_BITS == 3

EmptySlot == [expensive |-> Zero, recent |-> Zero]

RECURSIVE closest_power_of_two_at(_, _)
closest_power_of_two_at(remaining, bit_count) ==
    IF remaining = Zero THEN bit_count
    ELSE closest_power_of_two_at(Shr(remaining, 1), bit_count + 1)

closest_power_of_two(number) == closest_power_of_two_at(number, 0)

\* (1 << n) - 1
LowMask(n) == {i \in Word : i < n}

\* TransTable::new; slots holds the slots that are not all-zero
new_table(table_size) ==
    LET largest_possible_position == LowMask(POSITION_BITS)
        key_size == closest_power_of_two(DivMod(largest_possible_position, table_size).quot)
        key_score_size == key_size + SCORE_BITS
        key_mask == LowMask(key_size)
        score_mask == BitXor(LowMask(key_score_size), key_mask)
    IN  [table_size |-> table_size,
         slots |-> << >>,
         stored_count |-> 0,
         key_bits |-> key_size,
         key_score_bits |-> key_score_size,
         key_mask |-> key_mask,
         score_mask |-> score_mask]

slot_at(tt, index) ==
    IF index \in DOMAIN tt.slots THEN tt.slots[index] ELSE EmptySlot

put_slot(slots, index, slot) ==
    IF slot = EmptySlot
    THEN [i \in DOMAIN slots \ {index} |-> slots[i]]
    ELSE [i \in DOMAIN slots \cup {index} |-> IF i = index THEN slot ELSE slots[i]]

table_reset(tt) == [tt EXCEPT !.stored_count = 0, !.slots = << >>]

\* the low 32 bits of a word (a cast to u32)
as_u32(a) == BitAnd(a, LowMask(32))

\* the entry that store builds
unshifted_entry(tt, key, score, work) ==
    BitOr(BitOr(key, Shl(FromInt(score), tt.key_bits)), Shl(work, tt.key_bits))

new_entry(tt, key, score, work) ==
    BitOr(BitOr(key, Shl(FromInt(score), tt.key_bits)), Shl(work, tt.key_score_bits))

\* the test that promotes the new entry over an expensive entry of another key
underworks(tt, work, expensive_entry) ==
    Less(work, as_u32(Shr(expensive_entry, tt.key_score_bits)))

outworks(tt, work, expensive_entry) ==
    GreaterEq(work, as_u32(Shr(expensive_entry, tt.key_score_bits)))

\* a key test that never finds the key
key_differs(tt, key, entry) == FALSE

\* the key field of an entry is key
key_matches(tt, key, entry) == BitAnd(entry, tt.key_mask) = key

\* store(position_code, score, work): work is a u32 given as a word
store(tt, position_code, score, work) ==
    LET dm == DivMod(position_code, tt.table_size)
        index == dm.rem
        key == dm.quot
        entry == new_entry(tt, key, score, work)
        slot == slot_at(tt, index)
        expensive_entry == slot.expensive
        recent_entry == slot.recent
        grow == [tt EXCEPT !.stored_count = @ + 1]
    IN  IF expensive_entry = Zero THEN
            [grow EXCEPT !.slots = put_slot(@, index, [slot EXCEPT !.expensive = entry])]
        ELSE IF key_matches(tt, key, expensive_entry) THEN
            [tt EXCEPT !.slots = put_slot(@, index, [slot EXCEPT !.expensive = entry])]
        ELSE IF outworks(tt, work, expensive_entry) THEN
            [(IF recent_entry = Zero THEN grow ELSE tt) EXCEPT
                !.slots = put_slot(@, index,
                                   [expensive |-> entry, recent |-> expensive_entry])]
        ELSE
            [(IF recent_entry = Zero THEN grow ELSE tt) EXCEPT
                !.slots = put_slot(@, index, [slot EXCEPT !.recent = entry])]

\* the entry of the slot that fetch reads: the expensive one first
found_entry(tt, position_code) ==
    LET dm == DivMod(position_code, tt.table_size)
        key == dm.quot
        slot == slot_at(tt, dm.rem)
    IN  IF BitAnd(slot.expensive, tt.key_mask) = key
        THEN [found |-> TRUE, entry |-> slot.expensive]
        ELSE IF BitAnd(slot.recent, tt.key_mask) = key
        THEN [found |-> TRUE, entry |-> slot.recent]
        ELSE [found |-> FALSE, entry |-> Zero]

fetch(tt, position_code) ==
    LET f == found_entry(tt, position_code)
    IN  IF f.found
        THEN from_u64_fast(Shr(BitAnd(f.entry, tt.score_mask), tt.key_bits))
        ELSE Unknown

(***************************************************************************)
(* Move ordering heuristic                                                 *)
(***************************************************************************)
TABLE ==
    << <<3, 5, 7, 11, 7, 5, 3>>,
       <<4, 6, 10, 12, 10, 6, 4>>,
       <<5, 10, 11, 12, 11, 10, 5>>,
       <<4, 8, 10, 11, 10, 8, 4>>,
       <<3, 6, 8, 10, 8, 6, 3>>,
       <<2, 3, 5, 7, 5, 3, 2>> >>

\* FixedHeuristic::get_value (TABLE is indexed from zero in the source)
get_value(x, y) == TABLE[(BOARD_HEIGHT - y - 1) + 1][x + 1]

(***************************************************************************)
(* Engine                                                                  *)
(***************************************************************************)
TABLE_SIZE == 101501

AlphaBeta(alpha, beta) == [alpha |-> alpha, beta |-> beta]

ab_new == AlphaBeta(Loss, Win)

ab_flip(ab) == AlphaBeta(score_flip(ab.beta), score_flip(ab.alpha))

\* the cutoff test with the comparison turned around
cutoff_reversed(ab) == ab.alpha <= ab.beta

\* a window that is never taken as closed
never_cutoff(ab) == FALSE

has_cutoff(ab) == ab.alpha >= ab.beta

narrow_alpha(ab, score) ==
    IF score = Win THEN [ab EXCEPT !.alpha = Win]
    ELSE IF score = Draw \/ score = DrawOrWin THEN [ab EXCEPT !.alpha = Draw]
    ELSE ab

\* Engine::new
engine_new ==
    [position |-> empty,
     trans_table |-> new_table(TABLE_SIZE),
     work_count |-> 0,
     ply |-> 0]

engine_reset(e) ==
    [e EXCEPT !.work_count = 0, !.trans_table = table_reset(@)]

set_position(e, p) == [e EXCEPT !.position = p, !.ply = get_ply(p)]

QScore(score) == [is_score |-> TRUE, score |-> score, moves |-> Zero]

QMoves(moves) == [is_score |-> FALSE, score |-> Unknown, moves |-> moves]

\* quick_evaluate without the forced-move rule
evaluate_unforced(p, ab) ==
    IF get_unblocked_moves(p) = Zero THEN QScore(Loss)
    ELSE QMoves(get_unblocked_moves(p))

quick_evaluate(p, ab) ==
    LET unblocked_moves == get_unblocked_moves(p)
        immediate_enemy_threats == get_immediate_wins(to_other_perspective(p))
        forced_move_count == count_moves(immediate_enemy_threats)
        auto_score == autofinish_score(p, unblocked_moves)
    IN  IF unblocked_moves = Zero THEN QScore(Loss)
        ELSE IF forced_move_count > 1 THEN QScore(Loss)
        ELSE IF forced_move_count = 1 THEN
            IF BitAnd(immediate_enemy_threats, unblocked_moves) = Zero
            THEN QScore(Loss)
            ELSE QMoves(immediate_enemy_threats)
        ELSE IF auto_score # Unknown /\ auto_score <= ab.alpha THEN QScore(auto_score)
        ELSE QMoves(unblocked_moves)

\* what check_negamax_preconditions asserts of the engine
negamax_preconditions(e) ==
    /\ ~has_anyone_won(e.position)
    /\ count_moves(get_immediate_wins(e.position)) = 0
    /\ e.ply = get_ply(e.position)
    /\ e.ply < BOARD_WIDTH * BOARD_HEIGHT

create_move(e, x) ==
    LET new_position == Position(e.position.other, drop(e.position, x))
        y == get_height(e.position, x)
        threats == count_threats(to_other_perspective(new_position))
        priority == threats * 1000000
                    + (IF e.ply > 19 THEN 1000 * y ELSE 0)
                    + get_value(x, y)
    IN  [new_position |-> new_position, priority |-> priority]

\* MoveBitmap::init_array: one move per column of the bitmap, columns ascending
RECURSIVE init_array(_, _, _)
init_array(e, move_bitmap, x) ==
    IF x >= BOARD_WIDTH THEN << >>
    ELSE (IF has_move(move_bitmap, x) THEN <<create_move(e, x)>> ELSE << >>)
            \o init_array(e, move_bitmap, x + 1)

\* the inner while loop of insertion_sort: sink element j towards the front
RECURSIVE sort_sink(_, _)
sort_sink(moves, j) ==
    IF j > 1 /\ moves[j - 1].priority < moves[j].priority
    THEN sort_sink([moves EXCEPT ![j - 1] = moves[j], ![j] = moves[j - 1]], j - 1)
    ELSE moves

RECURSIVE sort_from(_, _)
sort_from(moves, i) ==
    IF i > Len(moves) THEN moves ELSE sort_from(sort_sink(moves, i), i + 1)

insertion_sort(moves) == sort_from(moves, 2)

window_exact(ab) == ab.alpha < ab.beta /\ is_exact(ab.alpha) /\ is_exact(ab.beta)

\* what check_negamax_preconditions and the window of a call show at its entry
Entry(e, ab) ==
    [pre_ok |-> negamax_preconditions(e), window_ok |-> window_exact(ab), stores |-> {}]

\* what a call of negamax returns: the score, the engine as the call leaves it,
\* and what the call and the calls below it did (exhausted: the max_depth == 0
\* branch was taken; pre_ok: every call met negamax_preconditions; window_ok:
\* every call got alpha < beta with exact bounds; stores: what the calls stored
\* in the table)
Ret(score, e, exhausted, obs) ==
    [score |-> score, engine |-> e, exhausted |-> exhausted,
     pre_ok |-> obs.pre_ok, window_ok |-> obs.window_ok, stores |-> obs.stores]

\* the one-ply look-ahead: the columns whose child quick-evaluates to a score
\* that, seen from this side, reaches beta
lookahead_cut(p, move_bitmap, ab) ==
    {x \in 0..(BOARD_WIDTH - 1) :
        /\ has_move(move_bitmap, x)
        /\ LET q == quick_evaluate(position_after_drop(p, x), ab_flip(ab))
           IN  q.is_score /\ score_flip(q.score) >= ab.beta}

lookahead_score(p, x, ab) ==
    score_flip(quick_evaluate(position_after_drop(p, x), ab_flip(ab)).score)

RECURSIVE negamax(_, _, _)
RECURSIVE child_loop(_, _, _, _, _)

\* the forced move without the restoring of ply and position after the call
forced_unrestored(r, old_position, obs) ==
    Ret(score_flip(r.score), r.engine, r.exhausted,
        [pre_ok |-> obs.pre_ok /\ r.pre_ok, window_ok |-> obs.window_ok /\ r.window_ok,
         stores |-> obs.stores \cup r.stores])

\* the forced move: r is what the recursive call on the forced child returned
forced_return(r, old_position, obs) ==
    Ret(score_flip(r.score),
        [r.engine EXCEPT !.ply = @ - 1, !.position = old_position],
        r.exhausted,
        [pre_ok |-> obs.pre_ok /\ r.pre_ok, window_ok |-> obs.window_ok /\ r.window_ok,
         stores |-> obs.stores \cup r.stores])

\* one pass of the loop over possible_moves: r is what the recursive call on
\* moves[i] returned; st carries ab, best_score, unknown_count and what the
\* calls so far did
child_step(moves, i, st, max_depth, r) ==
    LET score == score_flip(r.score)
        e2 == [r.engine EXCEPT !.ply = @ - 1]
        better == score > st.best_score
        ab2 == IF better THEN narrow_alpha(st.ab, score) ELSE st.ab
        st2 == [ab |-> ab2,
                best_score |-> IF better THEN score ELSE st.best_score,
                unknown_count |-> IF score # Unknown THEN st.unknown_count - 1
                                  ELSE st.unknown_count,
                exhausted |-> st.exhausted \/ r.exhausted,
                pre_ok |-> st.pre_ok /\ r.pre_ok,
                window_ok |-> st.window_ok /\ r.window_ok,
                stores |-> st.stores \cup r.stores]
    IN  IF better /\ has_cutoff(ab2) THEN [engine |-> e2, st |-> st2]
        ELSE child_loop(e2, moves, i + 1, st2, max_depth)

child_loop(e, moves, i, st, max_depth) ==
    IF i > Len(moves) THEN [engine |-> e, st |-> st]
    ELSE child_step(moves, i, st, max_depth,
                    negamax([e EXCEPT !.position = moves[i].new_position, !.ply = @ + 1],
                            ab_flip(st.ab), max_depth - 1))

\* what a store after the loop is about: the position of the node, the score
\* stored, whether the score was merged with a DrawOrLoss from the table, and
\* the best_score that the debug assertion of the merge is about
stored_entry(p, score, merged, best) ==
    [position |-> p, score |-> score, merged |-> merged, best |-> best]

\* the store after the loop without the adjustment for unknown children
store_unadjusted(done, old_position, original_interior_count, position_code, trans_score) ==
    Ret(done.st.best_score,
        [done.engine EXCEPT
            !.position = old_position,
            !.trans_table = store(@, position_code, done.st.best_score,
                                  FromInt(done.engine.work_count - original_interior_count))],
        done.st.exhausted,
        [done.st EXCEPT !.stores =
            @ \cup {stored_entry(old_position, done.st.best_score, FALSE, done.st.best_score)}])

\* after the loop: done is what the loop left; the score is adjusted and stored
negamax_store(done, old_position, original_interior_count, position_code, trans_score) ==
    LET work == done.engine.work_count - original_interior_count
        best1 == IF done.st.unknown_count > 0
                 THEN (IF done.st.best_score = Draw THEN DrawOrWin
                       ELSE IF done.st.best_score < Draw THEN Unknown
                       ELSE done.st.best_score)
                 ELSE done.st.best_score
        best_score == IF trans_score = DrawOrLoss /\ best1 >= Draw THEN Draw ELSE best1
    IN  Ret(best_score,
            [done.engine EXCEPT
                !.position = old_position,
                !.trans_table = store(@, position_code, best_score, FromInt(work))],
            done.st.exhausted,
            [done.st EXCEPT !.stores =
                @ \cup {stored_entry(old_position, best_score,
                                     trans_score = DrawOrLoss /\ best1 >= Draw, best1)}])

\* the use of the fetched trans_score and the loop over the ordered moves
negamax_search(e, ab, max_depth, move_bitmap, position_code, trans_score, obs) ==
    LET ab1 == IF trans_score = DrawOrWin THEN [ab EXCEPT !.alpha = Draw]
               ELSE IF trans_score = DrawOrLoss THEN [ab EXCEPT !.beta = Draw]
               ELSE ab
        best0 == IF trans_score = DrawOrWin THEN Draw ELSE Loss
        possible_moves == insertion_sort(init_array(e, move_bitmap, 0))
    IN  IF is_exact(trans_score) THEN Ret(trans_score, e, FALSE, obs)
        ELSE IF trans_score # Unknown /\ has_cutoff(ab1) THEN Ret(trans_score, e, FALSE, obs)
        ELSE negamax_store(
                child_loop(e, possible_moves, 1,
                           [ab |-> ab1, best_score |-> best0,
                            unknown_count |-> Len(possible_moves),
                            exhausted |-> FALSE,
                            pre_ok |-> obs.pre_ok, window_ok |-> obs.window_ok,
                            stores |-> obs.stores],
                           max_depth),
                e.position, e.work_count, position_code, trans_score)

\* the look-ahead over the children, then the table probe
negamax_lookahead(e, ab, max_depth, move_bitmap, position_code, obs) ==
    LET cut == lookahead_cut(e.position, move_bitmap, ab)
    IN  IF cut # {} THEN Ret(lookahead_score(e.position, SetMin(cut), ab), e, FALSE, obs)
        ELSE negamax_search(e, ab, max_depth, move_bitmap, position_code,
                            fetch(e.trans_table, position_code), obs)

\* the forced move, or the normalized code nc and the symmetry cut of the moves
negamax_moves(e, ab, max_depth, move_bitmap, nc, obs) ==
    IF count_moves(move_bitmap) = 1 THEN
        forced_return(
            negamax([e EXCEPT !.position = Position(e.position.other,
                                                    BitOr(e.position.current, move_bitmap)),
                              !.ply = @ + 1],
                    ab_flip(ab), max_depth - 1),
            e.position, obs)
    ELSE negamax_lookahead(e, ab, max_depth,
                           IF nc[2] THEN get_left_half(move_bitmap) ELSE move_bitmap,
                           nc[1], obs)

\* qe is what quick_evaluate gave for the position of e
negamax_evaluated(e, ab, max_depth, qe, obs) ==
    IF qe.is_score THEN Ret(qe.score, e, FALSE, obs)
    ELSE negamax_moves(e, ab, max_depth, qe.moves,
                       to_normalized_position_code(e.position), obs)

\* negamax without the return at the last ply
negamax_no_last_ply(e, ab, max_depth) ==
    IF max_depth = 0 THEN Ret(Unknown, e, TRUE, Entry(e, ab))
    ELSE negamax_evaluated([e EXCEPT !.work_count = @ + 1], ab, max_depth,
                           quick_evaluate(e.position, ab), Entry(e, ab))

negamax(e, ab, max_depth) ==
    IF e.ply = BOARD_WIDTH * BOARD_HEIGHT - 1 THEN Ret(Draw, e, FALSE, Entry(e, ab))
    ELSE IF max_depth = 0 THEN Ret(Unknown, e, TRUE, Entry(e, ab))
    ELSE negamax_evaluated([e EXCEPT !.work_count = @ + 1], ab, max_depth,
                           quick_evaluate(e.position, ab), Entry(e, ab))

\* the column loop of solve: some legal drop completes a four-in-a-row
solve_finds_win(p) ==
    \E x \in 0..(BOARD_WIDTH - 1) : is_legal(drop(p, x)) /\ has_won(drop(p, x))

\* what solve returns and why: path names the return statement taken
Solved(score, e, path) ==
    [score |-> score, engine |-> e, exhausted |-> FALSE,
     pre_ok |-> TRUE, window_ok |-> TRUE, stores |-> {}, path |-> path]

\* r is what the root call of negamax returned
Searched(r) ==
    [score |-> r.score, engine |-> r.engine, exhausted |-> r.exhausted,
     pre_ok |-> r.pre_ok, window_ok |-> r.window_ok, stores |-> r.stores,
     path |-> "negamax"]

\* solve without the return on a full board
solve_no_full_check(e) ==
    IF has_won(e.position.current) THEN Solved(Win, e, "current_won")
    ELSE IF has_won(e.position.other) THEN Solved(Loss, e, "other_won")
    ELSE IF solve_finds_win(e.position) THEN Solved(Win, e, "immediate_win")
    ELSE Searched(negamax(e, ab_new, BOARD_WIDTH * BOARD_HEIGHT))

\* Engine::solve
solve(e) ==
    IF has_won(e.position.current) THEN Solved(Win, e, "current_won")
    ELSE IF has_won(e.position.other) THEN Solved(Loss, e, "other_won")
    ELSE IF e.ply = BOARD_WIDTH * BOARD_HEIGHT THEN Solved(Draw, e, "board_full")
    ELSE IF solve_finds_win(e.position) THEN Solved(Win, e, "immediate_win")
    ELSE Searched(negamax(e, ab_new, BOARD_WIDTH * BOARD_HEIGHT))

(***************************************************************************)
(* Book                                                                    *)
(***************************************************************************)
\* the position as it is, in place of the normalized one
as_given(p) == p

\* of a position and its mirror image, the one whose code is not the smaller
normalize(p) ==
    LET flipped == position_flip(p)
        code1 == to_position_code(p)
        code2 == to_position_code(flipped)
    IN  IF Less(code1, code2) THEN flipped ELSE p

SCORE_SHIFT == WORD_BITS - SCORE_BITS

POSITION_MASK == Sub(Shl(FromInt(1), SCORE_SHIFT), FromInt(1))

\* BookEntry::new: the score above the code of the normalized position
book_entry(p, score) ==
    LET code == to_position_code(normalize(p))
        score_bits == Shl(FromInt(score), SCORE_SHIFT)
    IN  BitOr(code, score_bits)

get_position_code(entry) == BitAnd(entry, POSITION_MASK)

get_score(entry) == from_u64_fast(Shr(entry, SCORE_SHIFT))

\* BookEntry::get_position unwraps what from_position_code gives: None
\* stands for the panic
get_position(entry) == from_position_code(get_position_code(entry))

\* Some(entry)
SomeEntry(entry) == [entry |-> entry]

from_char(ch) ==
    CASE ch = "-" -> Loss
      [] ch = "<" -> DrawOrLoss
      [] ch = "=" -> Draw
      [] ch = ">" -> DrawOrWin
      [] ch = "+" -> Win
      [] OTHER -> Unknown

to_lowercase(str) ==
    [i \in DOMAIN str |->
        IF \E k \in DOMAIN Uppercase : Uppercase[k] = str[i]
        THEN Lowercase[CHOOSE k \in DOMAIN Uppercase : Uppercase[k] = str[i]]
        ELSE str[i]]

from_string(score_str) ==
    IF Len(score_str) = 1 THEN from_char(score_str[1])
    ELSE CASE to_lowercase(score_str) = <<"w", "i", "n">> -> Win
           [] to_lowercase(score_str) = <<"l", "o", "s", "s">> -> Loss
           [] to_lowercase(score_str) = <<"d", "r", "a", "w">> -> Draw
           [] OTHER -> Unknown

to_char(score) ==
    CASE score = Loss -> "-"
      [] score = DrawOrLoss -> "<"
      [] score = Draw -> "="
      [] score = DrawOrWin -> ">"
      [] score = Win -> "+"
      [] OTHER -> "?"

\* BookEntry::to_hex_string
to_hex_string(entry) ==
    as_hex_string(get_position(entry)) \o <<to_char(get_score(entry))>>

HEX_LENGTH == (WORD_BITS \div 8) * 2

\* BookEntry::from_hex_string
entry_from_hex_string(line) ==
    IF Len(line) # HEX_LENGTH + 1 THEN None
    ELSE LET position_code == from_str_radix(SubSeq(line, 1, HEX_LENGTH))
             score == from_string(SubSeq(line, HEX_LENGTH + 1, Len(line)))
         IN  IF ~position_code.ok THEN None
             ELSE IF from_position_code(position_code.value) = None THEN None
             ELSE IF score = Unknown THEN None
             ELSE SomeEntry(book_entry(from_position_code(position_code.value), score))

CELL_COUNT == BOARD_WIDTH * BOARD_HEIGHT

\* the loop of from_verbose_string over the cells i..CELL_COUNT, column by
\* column from the bottom up
RECURSIVE verbose_cells(_, _, _)
verbose_cells(position_str, i, p) ==
    IF i > CELL_COUNT THEN p
    ELSE LET y == (i - 1) % BOARD_HEIGHT
             x == (i - 1) \div BOARD_HEIGHT
             ch == position_str[i]
         IN  IF ch \in {"X", "x"}
             THEN verbose_cells(position_str, i + 1, Position(set_disc(p.current, x, y), p.other))
             ELSE IF ch \in {"O", "o"}
             THEN verbose_cells(position_str, i + 1, Position(p.current, set_disc(p.other, x, y)))
             ELSE IF ch \in {" ", "b"}
             THEN verbose_cells(position_str, i + 1, p)
             ELSE None

from_verbose_string(line) ==
    LET filtered == SelectSeq(line, LAMBDA x : x # ",")
    IN  IF Len(filtered) < CELL_COUNT + 1 THEN None
        ELSE LET p == verbose_cells(SubSeq(filtered, 1, CELL_COUNT), 1, empty)
                 score == from_string(SubSeq(filtered, CELL_COUNT + 1, Len(filtered)))
             IN  IF p = None THEN None
                 ELSE IF score = Unknown THEN None
                 ELSE SomeEntry(book_entry(p, score))

autodetect_parse(line) ==
    IF entry_from_hex_string(line) # None THEN entry_from_hex_string(line)
    ELSE from_verbose_string(line)

\* impl Ord for BookEntry: the position codes are compared
entry_less(a, b) == Less(get_position_code(a), get_position_code(b))

\* Book::empty
book_empty == [entries |-> << >>, ply_mask |-> Zero]

\* the unwrap of get_position in add_entry has panicked
Panic == [panic |-> TRUE]

\* Err(InvalidData) of read_text_book
InvalidData == [err |-> "InvalidData"]

is_book(b) == b # Panic /\ b # InvalidData /\ b # None

add_entry(b, entry) ==
    IF b = Panic \/ get_position(entry) = None THEN Panic
    ELSE [entries |-> Append(b.entries, entry),
          ply_mask |-> BitOr(b.ply_mask, FromInt(get_ply(get_position(entry))))]

\* the entries in the order they were pushed
unsorted(entries) == entries

\* entries.sort(), a stable sort: each entry goes behind the entries that are
\* not greater
RECURSIVE sort_from_entry(_, _, _)
sort_from_entry(entries, i, sorted) ==
    IF i > Len(entries) THEN sorted
    ELSE LET k == Cardinality({j \in DOMAIN sorted : ~entry_less(entries[i], sorted[j])})
         IN  sort_from_entry(entries, i + 1,
                             SubSeq(sorted, 1, k) \o <<entries[i]>> \o SubSeq(sorted, k + 1, Len(sorted)))

sort(entries) == sort_from_entry(entries, 1, << >>)

sort_and_shrink(b) ==
    IF b = Panic THEN Panic
    ELSE [entries |-> sort(b.entries), ply_mask |-> b.ply_mask]

RECURSIVE add_entries(_, _, _)
add_entries(b, entries, i) ==
    IF i > Len(entries) THEN b
    ELSE add_entries(add_entry(b, entries[i]), entries, i + 1)

include_book(b, another_book) ==
    sort_and_shrink(add_entries(b, another_book.entries, 1))

\* the loop of read_text_book over the lines from line i on
RECURSIVE read_lines(_, _, _)
read_lines(lines, i, b) ==
    IF i > Len(lines) \/ b = Panic THEN b
    ELSE IF trim(lines[i]) = << >> THEN read_lines(lines, i + 1, b)
    ELSE IF autodetect_parse(lines[i]) = None THEN InvalidData
    ELSE read_lines(lines, i + 1, add_entry(b, autodetect_parse(lines[i]).entry))

read_text_book(lines) ==
    LET b == read_lines(lines, 1, book_empty)
    IN  IF b = InvalidData THEN InvalidData ELSE sort_and_shrink(b)

from_lines(data) == read_text_book(data)

contains_ply(b, ply_given) == BitAnd(b.ply_mask, FromInt(ply_given)) # Zero

\* slice::binary_search, on the entries lo + 1 .. hi
RECURSIVE binary_search(_, _, _, _)
binary_search(entries, entry, lo, hi) ==
    IF lo >= hi THEN [found |-> FALSE, index |-> lo]
    ELSE LET mid == lo + (hi - lo) \div 2
         IN  IF entry_less(entries[mid + 1], entry) THEN binary_search(entries, entry, mid + 1, hi)
             ELSE IF entry_less(entry, entries[mid + 1]) THEN binary_search(entries, entry, lo, mid)
             ELSE [found |-> TRUE, index |-> mid]

\* Book::get
get(b, p) ==
    LET entry == book_entry(p, Unknown)
        search == binary_search(b.entries, entry, 0, Len(b.entries))
    IN  IF search.found THEN get_score(b.entries[search.index + 1]) ELSE Unknown

\* the characters of the bytes 0..127 in UTF-8; a byte that no string can
\* hold as a character is written as # and its number
Ascii ==
    <<"#0", "#1", "#2", "#3", "#4", "#5", "#6", "#7",
      "#8", "\t", "\n", "#11", "#12", "\r", "#14", "#15",
      "#16", "#17", "#18", "#19", "#20", "#21", "#22", "#23",
      "#24", "#25", "#26", "#27", "#28", "#29", "#30", "#31",
      " ", "!", "\"", "#", "$", "%", "&", "'",
      "(", ")", "*", "+", ",", "-", ".", "/",
      "0", "1", "2", "3", "4", "5", "6", "7",
      "8", "9", ":", ";", "<", "=", ">", "?",
      "@", "A", "B", "C", "D", "E", "F", "G",
      "H", "I", "J", "K", "L", "M", "N", "O",
      "P", "Q", "R", "S", "T", "U", "V", "W",
      "X", "Y", "Z", "[", "\\", "]", "^", "_",
      "#96", "a", "b", "c", "d", "e", "f", "g",
      "h", "i", "j", "k", "l", "m", "n", "o",
      "p", "q", "r", "s", "t", "u", "v", "w",
      "x", "y", "z", "{", "|", "}", "~", "#127">>

\* str::as_bytes, for the characters above
as_bytes(str) == [i \in DOMAIN str |-> (CHOOSE b \in DOMAIN Ascii : Ascii[b] = str[i]) - 1]

BYTE_COUNT == WORD_BITS \div 8

\* the bytes of the entry with the lowest byte first
to_le_bytes(entry) == [k \in 1..BYTE_COUNT |-> LimbAt(entry, 8 * (k - 1), 8)]

\* u64::to_be_bytes
to_bytes(entry) == [k \in 1..BYTE_COUNT |-> LimbAt(entry, 8 * (BYTE_COUNT - k), 8)]

\* the loop of from_bytes from byte i on
RECURSIVE from_bytes_loop(_, _, _)
from_bytes_loop(bytes, i, board) ==
    IF i > Len(bytes) THEN board
    ELSE from_bytes_loop(bytes, i + 1, BitOr(Shl(board, 8), FromInt(bytes[i])))

from_bytes(bytes) == SomeEntry(from_bytes_loop(bytes, 1, Zero))

\* BufRead::lines: the bytes of each line, without the line feed (byte 10)
\* that ends it and without a carriage return (byte 13) before the line feed
raw_lines(bytes) ==
    LET feeds == {i \in DOMAIN bytes : bytes[i] = 10}
        starts == {s \in {1} \cup {i + 1 : i \in feeds} : s <= Len(bytes)}
        start(k) == CHOOSE s \in starts : Cardinality({t \in starts : t < s}) = k - 1
        fed(s) == \E f \in feeds : f >= s
        stop(s) == IF fed(s) THEN SetMin({f \in feeds : f >= s}) - 1 ELSE Len(bytes)
        cut(s) == IF fed(s) /\ stop(s) >= s /\ bytes[stop(s)] = 13 THEN stop(s) - 1 ELSE stop(s)
    IN  [k \in 1..Cardinality(starts) |-> SubSeq(bytes, start(k), cut(start(k)))]

\* a line of bytes below 128 is valid UTF-8, one character for each byte; a
\* line with a byte from 128 up is taken as not valid
is_utf8(line) == \A i \in DOMAIN line : line[i] < 128

from_utf8(line) == [i \in DOMAIN line |-> Ascii[line[i] + 1]]

\* read_text_book on the bytes of a file: the lines are read up to the first
\* one that lines() cannot give as a string, which is Err(InvalidData) too
read_text_file(bytes) ==
    LET all == raw_lines(bytes)
        bad == {k \in DOMAIN all : ~is_utf8(all[k])}
        good == IF bad = {} THEN Len(all) ELSE SetMin(bad) - 1
        b == read_lines([k \in 1..good |-> from_utf8(all[k])], 1, book_empty)
    IN  IF b = Panic THEN Panic
        ELSE IF b = InvalidData \/ bad # {} THEN InvalidData
        ELSE sort_and_shrink(b)

\* the loop of read_binary_book: read_exact takes BYTE_COUNT bytes from
\* offset at, and the loop ends when fewer are left
RECURSIVE read_entries(_, _, _)
read_entries(bytes, at, b) ==
    IF b = Panic \/ at + BYTE_COUNT > Len(bytes) THEN b
    ELSE read_entries(bytes, at + BYTE_COUNT,
                      add_entry(b, from_bytes(SubSeq(bytes, at + 1, at + BYTE_COUNT)).entry))

read_binary_book(bytes) == sort_and_shrink(read_entries(bytes, 0, book_empty))

\* Book::open on a file that exists and is read without an I/O error
open(bytes) ==
    IF is_book(read_text_file(bytes)) \/ read_text_file(bytes) = Panic
    THEN read_text_file(bytes)
    ELSE read_binary_book(bytes)

\* BookWriter::write_entry: the bytes written
write_entry(format, entry) ==
    IF format = "Hex" THEN as_bytes(to_hex_string(entry)) \o <<10>>
    ELSE to_bytes(entry)

\* write_entry for the entries of a book from entry i on, one after another
RECURSIVE write_entries(_, _, _)
write_entries(format, entries, i) ==
    IF i > Len(entries) THEN << >>
    ELSE write_entry(format, entries[i]) \o write_entries(format, entries, i + 1)

(***************************************************************************)
(* The engine as a state machine: set_position, solve and reset are called *)
(* in any order on one engine.  The roots given to set_position are the    *)
(* positions that from_variation builds from the last plies of a few       *)
(* complete games, seen from either side.                                   *)
(***************************************************************************)
\* a root has at most MaxEmpty empty cells
MaxEmpty == 6

\* at most MaxSolves calls of solve are made on one engine
MaxSolves == 2

Games ==
    { <<7,1,6,4,1,5,3,5,3,1,3,4,2,2,2,2,7,4,2,3,5,3,1,6,3,1,6,2,6,1,6,5,4,6,5,7,5,7,4,7,7,4>>,
      <<7,6,3,2,2,6,3,1,7,5,7,2,1,6,4,1,6,7,5,6,5,5,6,5,5,2,2,2,3,3,1,4,3,3,1,4,7,1,4,4,7,4>>,
      <<4,7,3,7,1,3,1,1,5,5,4,4,4,3,3,3,1,2,5,4,5,2,4,3,5,5,2,2,7,2,7,7,1,6,1,6,6,7,2,6,6,6>>,
      <<5,4,1,4,3,2,5,4,6,3,3,2,2,2,3,6,7,3,6,3,1,1,6,2,5,6,2,7,4,6,1,1,1,7,7,7,5,5,4,7,5,4>> }

Prefixes ==
    {SubSeq(g, 1, n) : g \in Games, n \in (BOARD_WIDTH * BOARD_HEIGHT - MaxEmpty)..(BOARD_WIDTH * BOARD_HEIGHT)}

Roots ==
    LET played == {from_variation(as_variation(v)) : v \in Prefixes}
    IN  played \cup {to_other_perspective(p) : p \in played}

NoOutcome ==
    [solved |-> FALSE, score |-> Unknown, path |-> "none", exhausted |-> FALSE,
     pre_ok |-> TRUE, window_ok |-> TRUE, stores |-> {}, nodes |-> 0,
     table_touched |-> FALSE,
     root |-> empty, root_ply |-> 0]

Engine == [position |-> position, trans_table |-> trans_table,
           work_count |-> work_count, ply |-> ply]

Init ==
    /\ position = engine_new.position
    /\ ply = engine_new.ply
    /\ trans_table = engine_new.trans_table
    /\ work_count = engine_new.work_count
    /\ outcome = NoOutcome
    /\ hist = << >>
    /\ solves = 0
    /\ book = None

\* set_position overwrites position and ply, so a call right after another one
\* leaves nothing of the first: it is made on a new engine or after a solve
SetPosition ==
    /\ solves < MaxSolves
    /\ position = empty \/ outcome.solved
    /\ \E p \in Roots :
        LET e == set_position(Engine, p)
        IN  /\ position' = e.position
            /\ ply' = e.ply
    /\ outcome' = NoOutcome
    /\ UNCHANGED <<trans_table, work_count, hist, solves, book>>

\* the engine and the record of the call after solve returned r
Return(r) ==
    /\ position' = r.engine.position
    /\ ply' = r.engine.ply
    /\ trans_table' = r.engine.trans_table
    /\ work_count' = r.engine.work_count
    /\ outcome' = [solved |-> TRUE, score |-> r.score, path |-> r.path,
                   exhausted |-> r.exhausted, pre_ok |-> r.pre_ok,
                   window_ok |-> r.window_ok, stores |-> r.stores,
                   nodes |-> r.engine.work_count - work_count,
                   table_touched |-> r.engine.trans_table # trans_table,
                   root |-> position, root_ply |-> ply]

\* solve is only run on a root, never on the empty board of a new engine
Solve ==
    /\ solves < MaxSolves
    /\ position \in Roots
    /\ Return(solve(Engine))
    /\ solves' = solves + 1
    /\ UNCHANGED <<hist, book>>

Reset ==
    /\ LET e == engine_reset(Engine)
       IN  /\ trans_table' = e.trans_table
           /\ work_count' = e.work_count
    /\ hist' = << >>
    /\ UNCHANGED <<position, ply, outcome, solves, book>>

Next == SetPosition \/ Solve \/ Reset

Spec == Init /\ [][Next]_vars

(***************************************************************************)
(* The transposition table alone: stores and resets on a new engine's      *)
(* table. hist lists the stores made on it since the last reset.           *)
(***************************************************************************)
MaxStores == 3

\* three positions whose codes share a slot, and the empty board
SlotVariations == {<<3, 6>>, <<4, 1, 1, 6>>, <<5, 1, 1, 2, 2, 6>>}

SlotCodes == {to_position_code(from_variation(as_variation(v))) : v \in SlotVariations}

Codes == SlotCodes \cup {to_position_code(empty)}

\* 1, 3 and 2^32 - 2^28 + 2, whose low 28 bits are 2
Works == {{0}, {0, 1}, {1, 28, 29, 30, 31}}

\* a store and its place in the table: the index of its slot and its key
Stored(position_code, score, work) ==
    LET dm == DivMod(position_code, trans_table.table_size)
    IN  [code |-> position_code, score |-> score, work |-> work,
         index |-> dm.rem, key |-> dm.quot]

Store(position_code, score, work) ==
    /\ Len(hist) < MaxStores
    /\ trans_table' = store(trans_table, position_code, score, work)
    /\ hist' = Append(hist, Stored(position_code, score, work))
    /\ UNCHANGED <<position, ply, work_count, outcome, solves, book>>

ResetTable ==
    /\ trans_table' = table_reset(trans_table)
    /\ hist' = << >>
    /\ UNCHANGED <<position, ply, work_count, outcome, solves, book>>

NextTT ==
    \/ \E position_code \in Codes, score \in Score, work \in Works :
            Store(position_code, score, work)
    \/ ResetTable

SpecTT == Init /\ [][NextTT]_vars

(***************************************************************************)
(* Positions alone: drops made one after another on a position that        *)
(* from_variation built.  hist lists the columns of the drops.             *)
(***************************************************************************)
MaxDrops == 3

\* the empty board, a centre stack, a column one player is about to fill
\* alone, and a late position of each of the games above
SeedVariations ==
    {<< >>, <<4, 4, 4>>, <<1, 2, 1, 3, 1, 4, 1, 5, 1, 6>>}
        \cup {SubSeq(g, 1, 37) : g \in Games}

Seeds == {from_variation(as_variation(v)) : v \in SeedVariations}

InitPos ==
    /\ \E p \in Seeds :
        /\ position = p
        /\ ply = get_ply(p)
    /\ trans_table = engine_new.trans_table
    /\ work_count = engine_new.work_count
    /\ outcome = NoOutcome
    /\ hist = << >>
    /\ solves = 0
    /\ book = None

\* position_after_drop gave a position, which is handed to set_position
Drop(column) ==
    /\ Len(hist) < MaxDrops
    /\ position_after_drop(position, column) # None
    /\ LET e == set_position(Engine, position_after_drop(position, column))
       IN  /\ position' = e.position
           /\ ply' = e.ply
    /\ hist' = Append(hist, column)
    /\ UNCHANGED <<trans_table, work_count, outcome, solves, book>>

NextPos == \E column \in 0..(BOARD_WIDTH - 1) : Drop(column)

SpecPos == InitPos /\ [][NextPos]_vars

(***************************************************************************)
(* Variations: a text is typed character by character and handed to        *)
(* from_variation after each character; what it returns (None included)    *)
(* is kept in position.  hist is the text.                                 *)
(***************************************************************************)
MaxChars == 3

\* texts to start from: nothing, a column one short of full and full, letters
\* of either case, and white space around and within the tokens
SeedTexts ==
    { << >>,
      as_variation(<<4, 4, 4, 4, 4>>),
      as_variation(<<4, 4, 4, 4, 4, 4>>),
      <<"a", "B", "c", "D", "e", "F", "g">>,
      <<"4", "d", "D", "4", "d", "G", "7">>,
      <<" ", "\t", "1", "2">>,
      <<"1", " ", "2">> }

TypedChars == {"1", "4", "7", "0", "8", "d", "G", "h", " ", "-"}

InitVar ==
    /\ hist \in SeedTexts
    /\ position = from_variation(hist)
    /\ ply = IF position = None THEN 0 ELSE get_ply(position)
    /\ trans_table = engine_new.trans_table
    /\ work_count = engine_new.work_count
    /\ outcome = NoOutcome
    /\ solves = 0
    /\ book = None

\* the text grows by one character and is parsed again from its start
Type(ch) ==
    /\ \E seed \in SeedTexts :
          /\ Len(seed) <= Len(hist)
          /\ SubSeq(hist, 1, Len(seed)) = seed
          /\ Len(hist) < Len(seed) + MaxChars
    /\ hist' = Append(hist, ch)
    /\ position' = from_variation(hist')
    /\ ply' = IF position' = None THEN 0 ELSE get_ply(position')
    /\ UNCHANGED <<trans_table, work_count, outcome, solves, book>>

NextVar == \E ch \in TypedChars : Type(ch)

SpecVar == InitVar /\ [][NextVar]_vars

(***************************************************************************)
(* Bitboards alone: discs are set one at a time, anywhere below the gutter *)
(* row, on a board that is empty or is the winner's board of the           *)
(* five-in-a-row and star positions of the win-checking test.  The board   *)
(* is kept as position.current, position.other stays empty, and ply counts *)
(* the discs.                                                              *)
(***************************************************************************)
MaxDiscs == 4

FiveInARow == <<"1", "1", "2", "2", "3", "3", "5", "5", "4">>

Star ==
    as_variation(<<4,3,1,2,2,3,3,2,3,1,3,3,2,2,2,1,1,6,7,5,
                   6,5,5,6,5,7,5,5,6,6,6,7,7,7,4,1,4,1,4>>)

SeedBoards == {Zero, from_variation(FiveInARow).other, from_variation(Star).other}

InitBoard ==
    /\ \E board \in SeedBoards :
          /\ position = Position(board, Zero)
          /\ ply = count_ones(board)
    /\ trans_table = engine_new.trans_table
    /\ work_count = engine_new.work_count
    /\ outcome = NoOutcome
    /\ hist = << >>
    /\ solves = 0
    /\ book = None

SetDisc(x, y) ==
    /\ \E seed \in SeedBoards :
          /\ BitAnd(position.current, seed) = seed
          /\ count_ones(position.current) < count_ones(seed) + MaxDiscs
    /\ position' = Position(set_disc(position.current, x, y), position.other)
    /\ ply' = count_ones(position'.current)
    /\ UNCHANGED <<trans_table, work_count, outcome, hist, solves, book>>

NextBoard ==
    \E x \in 0..(BOARD_WIDTH - 1), y \in 0..(BOARD_HEIGHT - 1) : SetDisc(x, y)

SpecBoard == InitBoard /\ [][NextBoard]_vars

(***************************************************************************)
(* Books: a book starts empty, is replaced by what from_lines reads from a *)
(* text, and takes in the entries of other books with include_book.  hist  *)
(* lists the calls with their results; a text that from_lines rejects, or   *)
(* on which it panics, leaves the book as it was.                          *)
(***************************************************************************)
MaxBooks == 3

\* a line of a hex book for the position of a variation
HexLine(columns, score) ==
    to_hex_string(book_entry(from_variation(as_variation(columns)), score))

\* the two lines of the example of from_lines: variations 4444 and 1234
ExampleLines ==
    << <<"0", "0", "0", "0", "0", "4", "0", "8", "1", "2", "A", "0", "4", "0",
       "8", "1", "+">>,
       <<"0", "0", "0", "0", "0", "4", "0", "8", "1", "0", "4", "0", "C", "1",
       "0", "3", "-">> >>

\* the position of variation 4444 cell by cell, with commas
VerboseLine ==
    <<"b", ",", "b", ",", "b", ",", "b", ",", "b", ",", "b", ",", "b", ",",
    "b", ",", "b", ",", "b", ",", "b", ",", "b", ",", "b", ",", "b", ",",
    "b", ",", "b", ",", "b", ",", "b", ",", "x", ",", "o", ",", "x", ",",
    "o", ",", "b", ",", "b", ",", "b", ",", "b", ",", "b", ",", "b", ",",
    "b", ",", "b", ",", "b", ",", "b", ",", "b", ",", "b", ",", "b", ",",
    "b", ",", "b", ",", "b", ",", "b", ",", "b", ",", "b", ",", "b", ",",
    "d", "r", "a", "w">>

\* column 1 filled by the player who is not to move, cell by cell
VerboseFullColumn ==
    <<"o", "o", "o", "o", "o", "o", "b", "b", "b", "b", "b", "b", "b", "b",
    "b", "b", "b", "b", "b", "b", "b", "b", "b", "b", "b", "b", "b", "b",
    "b", "b", "b", "b", "b", "b", "b", "b", "b", "b", "b", "b", "b", "b",
    "=">>

Texts ==
    { << >>,
      ExampleLines,
      <<HexLine(<< >>, Win)>>,
      <<HexLine(<<7, 6, 5, 4>>, Win), <<" ">>, HexLine(<<1, 2, 3, 4, 4, 3, 2, 1>>, Draw)>>,
      <<HexLine(<<1, 2, 3>>, DrawOrWin), HexLine(<<4, 4, 4, 4, 4>>, DrawOrLoss), HexLine(<<3, 3>>, Win)>>,
      <<VerboseLine>>,
      <<HexLine(<<4>>, Win), <<"4", "4", "4", "4", "+">>>>,
      <<VerboseFullColumn>> }

InitBook ==
    /\ position = engine_new.position
    /\ ply = engine_new.ply
    /\ trans_table = engine_new.trans_table
    /\ work_count = engine_new.work_count
    /\ outcome = NoOutcome
    /\ hist = << >>
    /\ solves = 0
    /\ book = book_empty

Called(name, result) ==
    [call |-> name,
     result |-> IF result = Panic THEN "panic"
                ELSE IF result = InvalidData THEN "InvalidData"
                ELSE "ok"]

FromLines(data) ==
    /\ Len(hist) < MaxBooks
    /\ book' = IF is_book(from_lines(data)) THEN from_lines(data) ELSE book
    /\ hist' = Append(hist, Called("from_lines", from_lines(data)))
    /\ UNCHANGED <<position, ply, trans_table, work_count, outcome, solves>>

\* another book, read by from_lines, is included
IncludeBook(data) ==
    /\ Len(hist) < MaxBooks
    /\ is_book(from_lines(data))
    /\ book' = include_book(book, from_lines(data))
    /\ hist' = Append(hist, Called("include_book", book'))
    /\ UNCHANGED <<position, ply, trans_table, work_count, outcome, solves>>

NextBook ==
    \E data \in Texts :
        \/ FromLines(data)
        \/ IncludeBook(data)

SpecBook == InitBook /\ [][NextBook]_vars

(***************************************************************************)
(* Book files: a file is given or is written from the book in memory by a  *)
(* BookWriter of either format, and Book::open reads it.  The book in      *)
(* memory is empty, comes from from_lines, or is what open returned, which *)
(* may be an error or a panic.  hist is the file: its bytes, whether book  *)
(* is the result of opening it, and the number of calls made.              *)
(***************************************************************************)
MaxCalls == 3

\* a good line followed by a line that is no entry
BadLineText ==
    as_bytes(<<"0", "0", "0", "0", "0", "4", "0", "8", "1", "2", "A", "0", "4",
             "0", "8", "1", "+", "\n", "x", "y", "z", "\n">>)

\* a short line that is no entry, in front of a good line
BadFirstLineText ==
    as_bytes(<<"4", "4", "4", "4", "+", "\n", "0", "0", "0", "0", "0", "4", "0",
             "8", "1", "2", "A", "0", "4", "0", "8", "1", "+", "\n">>)

\* the example lines with a carriage return, an empty line and a blank line
GoodText ==
    as_bytes(<<"0", "0", "0", "0", "0", "4", "0", "8", "1", "2", "A", "0", "4",
             "0", "8", "1", "+", "\r", "\n", "\n", " ", "\n", "0", "0", "0",
             "0", "0", "4", "0", "8", "1", "0", "4", "0", "C", "1", "0", "3",
             "-">>)

\* a binary file of two entries: variation 1234 with the code of the position
\* as it is, which is the smaller one, and variation 4444
PlainBinary ==
    to_bytes(BitOr(to_position_code(from_variation(as_variation(<<1, 2, 3, 4>>))),
                   Shl(FromInt(Loss), SCORE_SHIFT)))
        \o to_bytes(book_entry(from_variation(as_variation(<<4, 4, 4, 4>>)), Win))

FilesGiven ==
    {<< >>, BadLineText, BadFirstLineText, as_bytes(<<"x", "y", "z", "\n">>), GoodText, PlainBinary}

File(data, read, calls) == [data |-> data, read |-> read, calls |-> calls]

InitFile ==
    /\ position = engine_new.position
    /\ ply = engine_new.ply
    /\ trans_table = engine_new.trans_table
    /\ work_count = engine_new.work_count
    /\ outcome = NoOutcome
    /\ \E data \in FilesGiven : hist = File(data, FALSE, 0)
    /\ solves = 0
    /\ book = book_empty

\* Book::from_lines gives the book in memory
LoadLines(data) ==
    /\ hist.calls < MaxCalls
    /\ is_book(from_lines(data))
    /\ book' = from_lines(data)
    /\ hist' = File(hist.data, FALSE, hist.calls + 1)
    /\ UNCHANGED <<position, ply, trans_table, work_count, outcome, solves>>

\* a BookWriter is created on the file and write_entry is called for every
\* entry of the book
WriteBook(format) ==
    /\ hist.calls < MaxCalls
    /\ is_book(book)
    /\ hist' = File(write_entries(format, book.entries, 1), FALSE, hist.calls + 1)
    /\ UNCHANGED <<position, ply, trans_table, work_count, outcome, solves, book>>

OpenFile ==
    /\ hist.calls < MaxCalls
    /\ book' = open(hist.data)
    /\ hist' = File(hist.data, TRUE, hist.calls + 1)
    /\ UNCHANGED <<position, ply, trans_table, work_count, outcome, solves>>

NextFile ==
    \/ \E data \in Texts : LoadLines(data)
    \/ \E format \in {"Hex", "Binary"} : WriteBook(format)
    \/ OpenFile

SpecFile == InitFile /\ [][NextFile]_vars

(***************************************************************************)
(* The book generator's walk of the game tree: find_positions_to_solve     *)
(* calls explore_tree on the empty position, and every activation of       *)
(* explore_tree either returns at once, hands its position to the          *)
(* callback, or calls itself on a child.  hist is one activation: the ply  *)
(* asked of find_positions_to_solve, the position and max_depth of the     *)
(* activation, whether the callback has been called with the position,     *)
(* what it inserted into the set, and whether an unwrap has panicked.      *)
(***************************************************************************)
MaxPly == 7

Exploring(ply_given, p, max_depth) ==
    [ply |-> ply_given, position |-> p, max_depth |-> max_depth,
     called |-> FALSE, set |-> {}, panicked |-> FALSE]

\* the move bitmap of explore_tree: the unblocked moves, of a symmetric
\* position only the ones of the left half
explore_moves(p) ==
    IF to_normalized_position_code(p)[2] THEN get_left_half(get_unblocked_moves(p))
    ELSE get_unblocked_moves(p)

InitExplore ==
    /\ position = engine_new.position
    /\ ply = engine_new.ply
    /\ trans_table = engine_new.trans_table
    /\ work_count = engine_new.work_count
    /\ outcome = NoOutcome
    /\ \E ply_given \in 0..MaxPly : hist = Exploring(ply_given, empty, ply_given)
    /\ solves = 0
    /\ book = None

\* the activation is past both returns and calls explore_tree on the child
\* of column x
Recurse(x) ==
    /\ ~hist.panicked
    /\ ~has_anyone_won(hist.position)
    /\ hist.max_depth > 0
    /\ has_move(explore_moves(hist.position), x)
    /\ hist' = IF position_after_drop(hist.position, x) = None
               THEN [hist EXCEPT !.panicked = TRUE]
               ELSE Exploring(hist.ply, position_after_drop(hist.position, x),
                              hist.max_depth - 1)
    /\ UNCHANGED <<position, ply, trans_table, work_count, outcome, solves, book>>

\* max_depth is 0: the position goes to the callback of
\* find_positions_to_solve, which inserts its normalize() into the set
Callback ==
    /\ ~hist.panicked
    /\ ~has_anyone_won(hist.position)
    /\ hist.max_depth = 0
    /\ ~hist.called
    /\ hist' = [hist EXCEPT !.called = TRUE, !.set = {normalize(hist.position)}]
    /\ UNCHANGED <<position, ply, trans_table, work_count, outcome, solves, book>>

NextExplore ==
    \/ \E x \in 0..(BOARD_WIDTH - 1) : Recurse(x)
    \/ Callback

SpecExplore == InitExplore /\ [][NextExplore]_vars

(***************************************************************************)
(* The game on cells, as the rules state it: what the claims about solve   *)
(* are measured against.  Nothing here uses the bitboard primitives.       *)
(***************************************************************************)
Cell(x, y) == BIT_HEIGHT * x + y

Columns == 0..(BOARD_WIDTH - 1)

Rows == 0..(BOARD_HEIGHT - 1)

\* the sets of four cells in a line: across, up, and the two diagonals
FourLines ==
    {{Cell(x + i * d[1], y + i * d[2]) : i \in 0..3} :
        <<x, y, d>> \in {t \in Columns \X Rows \X {<<1, 0>>, <<0, 1>>, <<1, 1>>, <<1, -1>>} :
                            /\ t[1] + 3 * t[3][1] \in Columns
                            /\ t[2] + 3 * t[3][2] \in Rows}}

FourInRow(board) == \E line \in FourLines : line \subseteq board

Discs(p) == p.current \cup p.other

StackHeight(p, x) == Cardinality({y \in Rows : Cell(x, y) \in Discs(p)})

OpenColumns(p) == {x \in Columns : StackHeight(p, x) < BOARD_HEIGHT}

\* the current player's board after a disc in column x
Dropped(p, x) == p.current \cup {Cell(x, StackHeight(p, x))}

\* the position after the current player's disc in column x: the other moves
Played(p, x) == [current |-> p.other, other |-> Dropped(p, x)]

\* the columns in which the player to move completes four in a row
WinningColumns(p) == {x \in OpenColumns(p) : FourInRow(Dropped(p, x))}

Swapped(p) == [current |-> p.other, other |-> p.current]

\* disjoint boards, gravity, nothing in the gutter row, nobody has four in a row
LegalRoot(p) ==
    /\ p.current \cap p.other = {}
    /\ Discs(p) \subseteq {Cell(x, y) : x \in Columns, y \in Rows}
    /\ \A x \in Columns : \A y \in Rows :
          Cell(x, y) \in Discs(p) => y < StackHeight(p, x)
    /\ ~FourInRow(p.current)
    /\ ~FourInRow(p.other)

\* the minimax value for the player to move, the last mover not having won yet
\* checked: Loss if the last disc made four, Draw on a full board, else the
\* best of the replies
RECURSIVE GameValue(_)
GameValue(p) ==
    IF FourInRow(p.other) THEN Loss
    ELSE IF OpenColumns(p) = {} THEN Draw
    ELSE LET replies == {GameValue(Played(p, x)) : x \in OpenColumns(p)}
         IN  IF Loss \in replies THEN Win
             ELSE IF Draw \in replies THEN Draw
             ELSE Loss

\* C1: whenever solve has returned on a legal root (disjoint boards, gravity,
\* empty gutter, nobody has four in a row), the score it returned is the
\* minimax value of the root for the side to move.
SolveIsMinimax ==
    (outcome.solved /\ LegalRoot(outcome.root))
        => outcome.score = GameValue(outcome.root)

\* a legal root that took a search of at least ten nodes and table stores
SolveIsMinimaxWitness ==
    /\ outcome.solved
    /\ LegalRoot(outcome.root)
    /\ outcome.path = "negamax"
    /\ outcome.nodes >= 10
    /\ outcome.table_touched

\* what solve returns for p on an engine that has solved nothing before
fresh(p) == solve(set_position(engine_new, p))

\* what solve returns for p on the engine as it is now
again(p) == solve(set_position(Engine, p))

\* C2: after any sequence of set_position, solve and reset on one engine, a
\* solve on a legal root has returned Win, Loss or Draw, and no call of negamax
\* below it took the max_depth == 0 branch.
SolveIsExact ==
    (outcome.solved /\ LegalRoot(outcome.root))
        => /\ outcome.score \in {Win, Loss, Draw}
           /\ ~outcome.exhausted

\* a second solve on one engine that searched a legal root in fewer nodes than
\* a new engine needs: it used what the first solve left in the table
SolveIsExactWitness ==
    /\ outcome.solved
    /\ solves >= 2
    /\ LegalRoot(outcome.root)
    /\ outcome.path = "negamax"
    /\ outcome.nodes < fresh(outcome.root).engine.work_count

\* solve expanded no node and left the table as it was
Untouched == outcome.nodes = 0 /\ ~outcome.table_touched

\* C3: when the current player's board has four in a row solve returned Win;
\* otherwise when the other player's board has four in a row it returned Loss;
\* otherwise when the board holds 42 discs it returned Draw; and in all three
\* cases no node was expanded and the table was not touched.
SolveShortcuts ==
    outcome.solved =>
        /\ FourInRow(outcome.root.current)
            => (outcome.score = Win /\ Untouched)
        /\ (~FourInRow(outcome.root.current) /\ FourInRow(outcome.root.other))
            => (outcome.score = Loss /\ Untouched)
        /\ (/\ ~FourInRow(outcome.root.current)
            /\ ~FourInRow(outcome.root.other)
            /\ Cardinality(Discs(outcome.root)) = BOARD_WIDTH * BOARD_HEIGHT)
            => (outcome.score = Draw /\ Untouched)

\* a root in which both players have four in a row, solved as Win, on an
\* engine whose table holds entries of an earlier solve
SolveShortcutsWitness ==
    /\ outcome.solved
    /\ FourInRow(outcome.root.current)
    /\ FourInRow(outcome.root.other)
    /\ outcome.score = Win
    /\ trans_table.stored_count > 0

\* the column loop of solve and get_immediate_wins agree on the root
LoopAgrees ==
    solve_finds_win(outcome.root) <=> get_immediate_wins(outcome.root) # Zero

\* C4 as stated: whenever the current player has an immediate win solve
\* returned Win, and the column loop finds a win exactly when
\* get_immediate_wins is non-empty.
ImmediateWinAsStated ==
    outcome.solved =>
        /\ WinningColumns(outcome.root) # {} => outcome.score = Win
        /\ LoopAgrees

\* C4 amended: whenever the other player has no four in a row and the current
\* player has an immediate win solve returned Win; and on a root where nobody
\* has four in a row the column loop finds a win exactly when
\* get_immediate_wins is non-empty.
ImmediateWin ==
    outcome.solved =>
        /\ (~FourInRow(outcome.root.other) /\ WinningColumns(outcome.root) # {})
            => outcome.score = Win
        /\ (~FourInRow(outcome.root.current) /\ ~FourInRow(outcome.root.other))
            => LoopAgrees

\* nobody has four in a row, the current player has an immediate win, and the
\* column loop of solve returned Win
ImmediateWinWitness ==
    /\ outcome.solved
    /\ LegalRoot(outcome.root)
    /\ WinningColumns(outcome.root) # {}
    /\ outcome.path = "immediate_win"
    /\ outcome.score = Win

\* the opponent has an immediate win in two or more columns
DoubleThreat(p) == Cardinality(WinningColumns(Swapped(p))) >= 2

\* C5 as stated: whenever the opponent has two or more immediate wins solve
\* returned Loss.
DoubleThreatAsStated ==
    (outcome.solved /\ DoubleThreat(outcome.root)) => outcome.score = Loss

\* C5 amended: whenever the current player has neither four in a row nor an
\* immediate win, and the opponent has two or more immediate wins, solve
\* returned Loss.
DoubleThreatLoses ==
    (/\ outcome.solved
     /\ ~FourInRow(outcome.root.current)
     /\ WinningColumns(outcome.root) = {}
     /\ DoubleThreat(outcome.root))
        => outcome.score = Loss

\* a legal root with a double threat against the player to move, lost by the
\* search
DoubleThreatWitness ==
    /\ outcome.solved
    /\ LegalRoot(outcome.root)
    /\ WinningColumns(outcome.root) = {}
    /\ DoubleThreat(outcome.root)
    /\ outcome.path = "negamax"
    /\ outcome.score = Loss

LastPly(p) == Cardinality(Discs(p)) = BOARD_WIDTH * BOARD_HEIGHT - 1

\* C6 as stated: whenever the root holds 41 discs solve returned Draw without
\* expanding a node.
LastPlyAsStated ==
    (outcome.solved /\ LastPly(outcome.root))
        => (outcome.score = Draw /\ outcome.nodes = 0)

\* C6 amended: whenever the root holds 41 discs, nobody has four in a row and
\* the last drop does not give the current player four in a row, solve
\* returned Draw without expanding a node or touching the table.
LastPlyDraw ==
    (/\ outcome.solved
     /\ LastPly(outcome.root)
     /\ ~FourInRow(outcome.root.current)
     /\ ~FourInRow(outcome.root.other)
     /\ WinningColumns(outcome.root) = {})
        => (outcome.score = Draw /\ Untouched)

\* a root of 41 discs that reached negamax and came back a Draw
LastPlyWitness ==
    /\ outcome.solved
    /\ LastPly(outcome.root)
    /\ LegalRoot(outcome.root)
    /\ outcome.path = "negamax"
    /\ outcome.score = Draw

\* solve of the root equals the flipped solve of the root with sides swapped
FlipsWithSides ==
    outcome.score = score_flip(again(to_other_perspective(outcome.root)).score)

\* C7 as stated: for every position p, solve(p) = flip(solve(p')) with p' the
\* position with the boards swapped.
PerspectiveAsStated == outcome.solved => FlipsWithSides

\* the game is over at p with one winner or none: exactly one player has four
\* in a row, or nobody has and the board is full
Decided(p) ==
    \/ FourInRow(p.current) # FourInRow(p.other)
    \/ /\ ~FourInRow(p.current)
       /\ ~FourInRow(p.other)
       /\ Cardinality(Discs(p)) = BOARD_WIDTH * BOARD_HEIGHT

\* C7 amended: for every position p in which exactly one player has four in a
\* row, or nobody has and the board is full, solve(p) = flip(solve(p')).
PerspectiveWhenDecided ==
    (outcome.solved /\ Decided(outcome.root)) => FlipsWithSides

\* a full board without a four in a row, a Draw from either side
PerspectiveWitness ==
    /\ outcome.solved
    /\ ~FourInRow(outcome.root.current)
    /\ ~FourInRow(outcome.root.other)
    /\ Cardinality(Discs(outcome.root)) = BOARD_WIDTH * BOARD_HEIGHT
    /\ outcome.score = Draw
    /\ again(to_other_perspective(outcome.root)).score = Draw


(***************************************************************************)
(* Transposition table claims, under SpecTT                                *)
(***************************************************************************)
\* the work field of an entry, as a word
entry_work(entry) == Shr(entry, trans_table.key_score_bits)

\* what is left of a u32 work in the bits above the score field
kept_work(work) == BitAnd(work, LowMask(WORD_BITS - trans_table.key_score_bits))

LastStore == hist[Len(hist)]

\* the stores of a history h made to the slot of index i
StoresTo(h, i) == {n \in DOMAIN h : h[n].index = i}

UsedSlots == {hist[n].index : n \in DOMAIN hist}

\* every code of the slot of index i was stored once
StoredOnce(h, i) ==
    \A m, n \in StoresTo(h, i) : h[m].code = h[n].code => m = n

\* the store of the greatest work, the latest one on ties
GreatestStore(h, i) ==
    CHOOSE n \in StoresTo(h, i) :
        \A m \in StoresTo(h, i) :
            \/ Less(h[m].work, h[n].work)
            \/ h[m].work = h[n].work /\ m <= n

LatestStore(h, i) == SetMax(StoresTo(h, i))

\* C8: right after store(code, s, w) the entry that fetch reads for code
\* holds the key of code, s in its score field and the low 28 bits of w
\* above them, so that fetch(code) is s whenever s is informative
StoreThenFetch ==
    hist # << >> =>
        LET f == found_entry(trans_table, LastStore.code)
        IN  /\ f.found
            /\ BitAnd(f.entry, trans_table.key_mask) = LastStore.key
            /\ Shr(BitAnd(f.entry, trans_table.score_mask), trans_table.key_bits)
                    = FromInt(LastStore.score)
            /\ entry_work(f.entry) = kept_work(LastStore.work)
            /\ LastStore.score # Unknown
                    => fetch(trans_table, LastStore.code) = LastStore.score

\* three codes of one slot were stored, the last one with a work of more
\* than 28 bits on top of two entries, and it is fetched with its score
StoreThenFetchWitness ==
    /\ Len(hist) = 3
    /\ {hist[n].code : n \in DOMAIN hist} = SlotCodes
    /\ hist[1].score = Win /\ hist[2].score = Win
    /\ LastStore.work = {1, 28, 29, 30, 31}
    /\ LastStore.score = Draw
    /\ fetch(trans_table, LastStore.code) = Draw

\* C9: when each code of a slot was stored once, the code stored with the
\* greatest work (the latest on ties) and the code stored last are fetched
\* with the scores they were stored with, and at most two codes of the slot
\* are fetched with a score other than Unknown
TwoBig1Retention ==
    \A i \in UsedSlots :
        StoredOnce(hist, i) =>
            /\ fetch(trans_table, hist[GreatestStore(hist, i)].code)
                    = hist[GreatestStore(hist, i)].score
            /\ fetch(trans_table, hist[LatestStore(hist, i)].code)
                    = hist[LatestStore(hist, i)].score
            /\ Cardinality({n \in StoresTo(hist, i) :
                                fetch(trans_table, hist[n].code) # Unknown}) <= 2

CodeRoundTrip ==
    /\ from_position_code(to_position_code(position)) = position
    /\ from_hex_string(as_hex_string(position)) = position


\* the mirror image of a board on cells: column x becomes column 6 - x
MirrorCells(board) ==
    {Cell(BOARD_WIDTH - 1 - x, y) : <<x, y>> \in {t \in Columns \X (0..BOARD_HEIGHT) :
                                                    Cell(t[1], t[2]) \in board}}

Mirrored(p) == [current |-> MirrorCells(p.current), other |-> MirrorCells(p.other)]

\* a < b for words, decided at the highest bit in which they differ
Below(a, b) == \E i \in b \ a : \A j \in (i + 1)..(WORD_BITS - 1) : (j \in a) <=> (j \in b)

\* C13: flip is the mirror image and flipping twice gives the position back;
\* to_normalized_position_code gives the smaller of the codes of the position
\* and of its mirror image, with the flag that says whether the two codes are
\* equal, and gives the same pair for the mirror image
NormalizedCode ==
    LET flipped == position_flip(position)
        code1 == to_position_code(position)
        code2 == to_position_code(Mirrored(position))
        n == to_normalized_position_code(position)
    IN  /\ flipped = Mirrored(position)
        /\ position_flip(flipped) = position
        /\ n[1] \in {code1, code2}
        /\ ~Below(code1, n[1]) /\ ~Below(code2, n[1])
        /\ n[2] = (code1 = code2)
        /\ to_normalized_position_code(flipped) = n

\* a position that is not its own mirror image and whose mirror image has the
\* smaller code, after a drop
NormalizedCodeWitness ==
    /\ hist # << >>
    /\ Mirrored(position) # position
    /\ to_normalized_position_code(position)[1] = to_position_code(Mirrored(position))
    /\ to_normalized_position_code(position)[1] # to_position_code(position)
    /\ ~to_normalized_position_code(position)[2]


(***************************************************************************)
(* C14 as stated: the position code in the low bits of BookEntry::new(p, s) *)
(* is the value that to_normalized_position_code(p) returns, the smaller   *)
(* of the codes of p and of its mirror image.                              *)
(***************************************************************************)
BookKeyAsStated ==
    \A s \in Score :
        get_position_code(book_entry(position, s)) = to_normalized_position_code(position)[1]

(***************************************************************************)
(* C14: the low bits of BookEntry::new(p, s) hold the code of p or the     *)
(* code of its mirror image, whichever is not below the other, so the      *)
(* greater of the two; the entry of the mirror image has the same low      *)
(* bits; the bits from SCORE_SHIFT up hold s; and the low bits are the     *)
(* value of to_normalized_position_code(p) exactly when p is its own       *)
(* mirror image.                                                           *)
(***************************************************************************)
BookKey ==
    LET codes == {to_position_code(position), to_position_code(Mirrored(position))}
    IN  \A s \in Score :
            LET entry == book_entry(position, s)
                code == get_position_code(entry)
            IN  /\ code \in codes
                /\ \A other \in codes : ~Below(code, other)
                /\ get_position_code(book_entry(Mirrored(position), s)) = code
                /\ get_score(entry) = s
                /\ Shr(entry, SCORE_SHIFT) = FromInt(s)
                /\ (code = to_normalized_position_code(position)[1])
                       <=> (Mirrored(position) = position)

\* drops made a position whose code is below its mirror image's, so that the
\* entry holds the mirror image's code
BookKeyWitness ==
    /\ Len(hist) > 0
    /\ Below(to_position_code(position), to_position_code(Mirrored(position)))
    /\ get_position_code(book_entry(position, Win)) = to_position_code(Mirrored(position))

(***************************************************************************)
(* C15: on every position and for every column x, position_after_drop      *)
(* returns None exactly when column x holds BOARD_HEIGHT discs; otherwise  *)
(* it returns a position with one more disc, in which the player to move   *)
(* has the boards swapped: its current board is the old other board, its   *)
(* other board is the old current board plus the lowest empty cell of      *)
(* column x and nothing else; the result again has disjoint boards, no     *)
(* disc above an empty cell and nothing in the gutter row.                 *)
(***************************************************************************)
WellFormed(p) ==
    /\ p.current \cap p.other = {}
    /\ Discs(p) \subseteq {Cell(x, y) : x \in Columns, y \in Rows}
    /\ \A x \in Columns : \A y \in Rows :
          Cell(x, y) \in Discs(p) => y < StackHeight(p, x)

AfterDrop ==
    /\ WellFormed(position)
    /\ \A x \in Columns :
          LET q == position_after_drop(position, x)
              cell == Cell(x, StackHeight(position, x))
          IN  IF StackHeight(position, x) = BOARD_HEIGHT THEN q = None
              ELSE /\ q # None
                   /\ get_ply(q) = get_ply(position) + 1
                   /\ q.current = position.other
                   /\ cell \notin Discs(position)
                   /\ q.other = position.current \cup {cell}
                   /\ WellFormed(q)

\* the last drop filled its column, into which a further drop gives None,
\* while another column still takes a disc
AfterDropWitness ==
    /\ Len(hist) > 0
    /\ StackHeight(position, hist[Len(hist)]) = BOARD_HEIGHT
    /\ position_after_drop(position, hist[Len(hist)]) = None
    /\ \E x \in Columns : position_after_drop(position, x) = Played(position, x)

(***************************************************************************)
(* C16: from_variation gives a position exactly when every character of    *)
(* the text, white space at its ends taken off, is a digit 1..7 or a       *)
(* letter A..G of either case and no column is named more than             *)
(* BOARD_HEIGHT times; the position then holds one disc for each token,    *)
(* token i in the column it names on top of the earlier tokens of that     *)
(* column, the odd tokens being the first player's and the even ones the   *)
(* second player's, and the player to move is the one who did not place    *)
(* the last token.  Every other text gives None.                           *)
(***************************************************************************)
Blank(ch) == ch \in {" ", "\t", "\n", "\r"}

\* the text between its first and its last character that is not white space
Tokens(text) ==
    LET solid == {i \in DOMAIN text : ~Blank(text[i])}
    IN  IF solid = {} THEN << >>
        ELSE SubSeq(text, SetMin(solid), SetMax(solid))

ColumnNames == <<{"1", "A", "a"}, {"2", "B", "b"}, {"3", "C", "c"}, {"4", "D", "d"},
                 {"5", "E", "e"}, {"6", "F", "f"}, {"7", "G", "g"}>>

Named(ch) == {x \in Columns : ch \in ColumnNames[x + 1]}

\* the cell that token i lands in, its column being named
Landing(tokens, i) ==
    LET x == CHOOSE c \in Columns : c \in Named(tokens[i])
    IN  Cell(x, Cardinality({j \in 1..(i - 1) : tokens[j] \in ColumnNames[x + 1]}))

Placeable(tokens) ==
    /\ \A i \in DOMAIN tokens : Named(tokens[i]) # {}
    /\ \A x \in Columns :
          Cardinality({i \in DOMAIN tokens : tokens[i] \in ColumnNames[x + 1]}) <= BOARD_HEIGHT

PlacedBy(tokens, parity) ==
    {Landing(tokens, i) : i \in {j \in DOMAIN tokens : j % 2 = parity}}

\* the player to move placed the tokens of the parity of Len(tokens) + 1
Placed(tokens) ==
    [current |-> PlacedBy(tokens, (Len(tokens) + 1) % 2),
     other |-> PlacedBy(tokens, Len(tokens) % 2)]

AllOrNothing ==
    /\ position = from_variation(hist)
    /\ IF Placeable(Tokens(hist))
       THEN /\ position = Placed(Tokens(hist))
            /\ Cardinality(Discs(position)) = Len(Tokens(hist))
       ELSE position = None

\* the seventh token for column 4 has been typed after six that gave a
\* position of six discs, and the whole text gives None
AllOrNothingWitness ==
    /\ hist = as_variation(<<4, 4, 4, 4, 4, 4, 4>>)
    /\ position = None
    /\ from_variation(SubSeq(hist, 1, 6)) = Placed(SubSeq(hist, 1, 6))
    /\ Cardinality(Discs(from_variation(SubSeq(hist, 1, 6)))) = 6

(***************************************************************************)
(* C17: for a bitboard with nothing in the gutter row, has_won holds       *)
(* exactly when four set cells lie next to each other in a column, a row   *)
(* or a diagonal of the board; and after a drop into a column that is not  *)
(* full, has_won of the mover's board holds exactly when a line of four    *)
(* passes through the dropped cell or was there before the drop.           *)
(***************************************************************************)
LowestEmpty(board, x) == Cell(x, SetMin({y \in 0..BOARD_HEIGHT : Cell(x, y) \notin board}))

FourDetected ==
    LET board == position.current
    IN  /\ is_legal(board)
        /\ has_won(board) <=> FourInRow(board)
        /\ \A x \in Columns :
              LET cell == LowestEmpty(Discs(position), x)
                  dropped == drop(position, x)
              IN  is_legal(dropped) =>
                      /\ dropped = board \cup {cell}
                      /\ has_won(dropped) <=>
                            \/ FourInRow(board)
                            \/ \E line \in FourLines :
                                  cell \in line /\ line \subseteq board \cup {cell}

\* four discs were set on the empty board along a diagonal and are a win; the
\* top three cells of column 0 with the bottom cell of column 1, which only
\* the gutter bit keeps apart, are none
FourDetectedWitness ==
    /\ ply = 4
    /\ position.current = {Cell(3, 0), Cell(4, 1), Cell(5, 2), Cell(6, 3)}
    /\ has_won(position.current)
    /\ ~has_won(set_disc(set_disc(set_disc(set_disc(Zero, 0, 3), 0, 4), 0, 5), 1, 0))

(***************************************************************************)
(* C18: for a bitboard with nothing in the gutter row, get_won_cells is    *)
(* the union of the lines of four cells (in a column, a row or a diagonal) *)
(* that are entirely set: every cell of a longer line and of lines that    *)
(* cross is in it, and no other cell is.                                   *)
(***************************************************************************)
WonCells ==
    /\ is_legal(position.current)
    /\ get_won_cells(position.current)
           = UNION {line \in FourLines : line \subseteq position.current}

\* discs were added to the star: lines of more than four cells cross, and a
\* set cell lies on none of them
WonCellsWitness ==
    /\ BitAnd(position.current, from_variation(Star).other) = from_variation(Star).other
    /\ ply > count_ones(from_variation(Star).other)
    /\ \A x \in Columns : Cell(x, 3) \in get_won_cells(position.current)
    /\ \A i \in 0..5 : Cell(i, i) \in get_won_cells(position.current)
    /\ \A y \in 0..3 : Cell(3, y) \in get_won_cells(position.current)
    /\ position.current \ get_won_cells(position.current) # {}

(***************************************************************************)
(* C19: the ply filter has no false negatives: for every ply from 0 to the *)
(* number of cells, when contains_ply returns false the book holds no      *)
(* entry whose position has that many discs.                               *)
(***************************************************************************)
EntryPlies(b) == {get_ply(get_position(b.entries[i])) : i \in DOMAIN b.entries}

PlyFilter ==
    \A p \in 0..(BOARD_WIDTH * BOARD_HEIGHT) :
        ~contains_ply(book, p) => p \notin EntryPlies(book)

(***************************************************************************)
(* C20: when no two entries of the book are for the same position up to    *)
(* mirroring, the entries are in ascending order of position code after    *)
(* from_lines and after include_book, and get returns, for a position and  *)
(* for its mirror image alike, the score of the entry for that position,   *)
(* and Unknown when the book has no entry for it.                          *)
(***************************************************************************)
\* the code a book entry for p holds: that of p or of its mirror image,
\* whichever is not below the other
EntryCode(p) ==
    LET codes == {to_position_code(p), to_position_code(Mirrored(p))}
    IN  CHOOSE code \in codes : \A other \in codes : ~Below(code, other)

Probes ==
    {from_variation(as_variation(v)) :
        v \in {<< >>, <<4>>, <<1>>, <<3, 3>>, <<5, 5>>, <<1, 2, 3>>, <<4, 4, 4, 4>>,
               <<1, 2, 3, 4>>, <<7, 6, 5, 4>>, <<4, 4, 4, 4, 4>>, <<1, 2, 3, 4, 4, 3, 2, 1>>,
               <<1, 2, 1, 3, 1, 4, 1, 5, 1, 6, 1>>}}

DistinctEntries(b) ==
    \A i, j \in DOMAIN b.entries :
        get_position_code(b.entries[i]) = get_position_code(b.entries[j]) => i = j

EntriesFor(b, p) == {i \in DOMAIN b.entries : get_position_code(b.entries[i]) = EntryCode(p)}

TextOf(data) == [k \in DOMAIN raw_lines(data) |-> from_utf8(raw_lines(data)[k])]

HasBadLine(data) ==
    /\ is_utf8(data)
    /\ \E k \in DOMAIN TextOf(data) :
          /\ trim(TextOf(data)[k]) # << >>
          /\ autodetect_parse(TextOf(data)[k]) = None

BadLineFails ==
    (hist.read /\ HasBadLine(hist.data)) => book = InvalidData

(***************************************************************************)
(* C22 as stated: the entries of the book in memory, written by a          *)
(* BookWriter of either format and read back by Book::open, give a book    *)
(* with the same multiset of pairs of position code and score; and every   *)
(* entry is what from_bytes makes of its to_bytes and, its score being     *)
(* informative, what from_hex_string makes of its to_hex_string.           *)
(***************************************************************************)
Pair(entry) == <<get_position_code(entry), get_score(entry)>>

\* the multiset of the pairs of a book: the number of entries for each pair
Pairs(b) ==
    [pair \in {Pair(b.entries[i]) : i \in DOMAIN b.entries} |->
        Cardinality({i \in DOMAIN b.entries : Pair(b.entries[i]) = pair})]

ReadBack(format) == open(write_entries(format, book.entries, 1))

SameAfter(format) ==
    /\ is_book(ReadBack(format))
    /\ Pairs(ReadBack(format)) = Pairs(book)

BytesRoundTrip(entry) == from_bytes(to_bytes(entry)) = SomeEntry(entry)

HexRoundTrip(entry) == entry_from_hex_string(to_hex_string(entry)) = SomeEntry(entry)

AsMade(entry) ==
    /\ get_score(entry) # Unknown
    /\ entry = book_entry(get_position(entry), get_score(entry))

DropSites(p) == {Cell(x, StackHeight(p, x)) : x \in OpenColumns(p)}

EnemyThreatCells(p) ==
    {c \in {Cell(x, y) : x \in Columns, y \in Rows} \ Discs(p) :
        \E line \in FourLines : c \in line /\ (line \ {c}) \subseteq p.other}

UnblockedCells(p) == {c \in DropSites(p) : (c + 1) \notin EnemyThreatCells(p)}

EnemyWins(p) == DropSites(p) \cap EnemyThreatCells(p)

Windows == {AlphaBeta(alpha, beta) : alpha \in {Loss, Draw, Win}, beta \in {Loss, Draw, Win}}

NoAnswer(p) ==
    \/ UnblockedCells(p) = {}
    \/ Cardinality(EnemyWins(p)) >= 2
    \/ Cardinality(EnemyWins(p)) = 1 /\ EnemyWins(p) \cap UnblockedCells(p) = {}

OneAnswer(p) ==
    /\ UnblockedCells(p) # {}
    /\ Cardinality(EnemyWins(p)) = 1
    /\ EnemyWins(p) \subseteq UnblockedCells(p)

(***************************************************************************)
(* C23: for every window, quick_evaluate returns Score(Loss) when the      *)
(* position has no unblocked move, when the opponent has two or more       *)
(* immediate wins, or when it has exactly one and that cell is not an      *)
(* unblocked move; when the opponent has exactly one immediate win and     *)
(* that cell is unblocked, it returns Moves holding that one cell.         *)
(***************************************************************************)
ForcedMove ==
    \A ab \in Windows :
        /\ NoAnswer(position) => quick_evaluate(position, ab) = QScore(Loss)
        /\ OneAnswer(position) => quick_evaluate(position, ab) = QMoves(EnemyWins(position))

\* drops have led to a position where the opponent has one immediate win,
\* that cell is an unblocked move among several, and quick_evaluate
\* returns that cell alone
ForcedMoveWitness ==
    /\ hist # << >>
    /\ OneAnswer(position)
    /\ Cardinality(UnblockedCells(position)) > 1
    /\ quick_evaluate(position, ab_new) = QMoves(EnemyWins(position))

(***************************************************************************)
(* C24: whenever solve has returned on a legal root, every call of negamax *)
(* it made (the root call, the call on a forced move, the calls on the     *)
(* children) found what check_negamax_preconditions asserts: nobody has    *)
(* four in a row, the player to move has no immediate win, the ply of the  *)
(* engine is the number of discs of its position, and the ply is below     *)
(* the number of cells.                                                    *)
(***************************************************************************)
PreconditionsHold ==
    (outcome.solved /\ LegalRoot(outcome.root)) => outcome.pre_ok

\* solve searched a legal root whose only move is forced: the root call
\* recursed on the forced child, and the calls below it went through the
\* loop over the children, which stored in the table
PreconditionsHoldWitness ==
    /\ outcome.solved
    /\ LegalRoot(outcome.root)
    /\ outcome.path = "negamax"
    /\ outcome.root_ply < BOARD_WIDTH * BOARD_HEIGHT - 1
    /\ ~quick_evaluate(outcome.root, ab_new).is_score
    /\ count_moves(quick_evaluate(outcome.root, ab_new).moves) = 1
    /\ outcome.nodes >= 4
    /\ outcome.table_touched
    /\ outcome.pre_ok

(***************************************************************************)
(* C30: whenever solve has returned, every call of negamax it made got a   *)
(* window with alpha < beta and both bounds among Loss, Draw and Win.  The *)
(* window of a child is the flipped window of its node, so no node has     *)
(* recursed into a child with its own window closed.                       *)
(***************************************************************************)
WindowsOpen == outcome.solved => outcome.window_ok

\* the moves of the loop of a node that negamax enters with engine e
NodeMoves(e, ab) ==
    LET qe == quick_evaluate(e.position, ab)
        nc == to_normalized_position_code(e.position)
    IN  insertion_sort(init_array(e, IF nc[2] THEN get_left_half(qe.moves)
                                     ELSE qe.moves, 0))

\* the call of negamax with engine e and window ab reaches its loop
LoopRuns(e, ab) ==
    LET qe == quick_evaluate(e.position, ab)
        nc == to_normalized_position_code(e.position)
    IN  /\ e.ply < BOARD_WIDTH * BOARD_HEIGHT - 1
        /\ ~qe.is_score
        /\ count_moves(qe.moves) > 1
        /\ lookahead_cut(e.position,
                         IF nc[2] THEN get_left_half(qe.moves) ELSE qe.moves, ab) = {}
        /\ fetch(e.trans_table, nc[1]) = Unknown

\* ... and leaves it with its window closed
LoopCut(e, ab) ==
    /\ LoopRuns(e, ab)
    /\ has_cutoff(child_loop([e EXCEPT !.work_count = @ + 1], NodeMoves(e, ab), 1,
                             [ab |-> ab, best_score |-> Loss,
                              unknown_count |-> Len(NodeMoves(e, ab)),
                              exhausted |-> FALSE, pre_ok |-> TRUE, window_ok |-> TRUE,
                              stores |-> {}],
                             BOARD_WIDTH * BOARD_HEIGHT - 1).st.ab)

\* the engine at the root of the first solve, and what the call on the first
\* child of the root returns
RootEngine ==
    [position |-> outcome.root, ply |-> outcome.root_ply,
     trans_table |-> engine_new.trans_table, work_count |-> 0]

FirstChild ==
    negamax([RootEngine EXCEPT !.position = NodeMoves(RootEngine, ab_new)[1].new_position,
                               !.ply = @ + 1, !.work_count = @ + 1],
            ab_flip(ab_new), BOARD_WIDTH * BOARD_HEIGHT - 1)

\* the first solve of an engine reached the loop of the root; the first
\* child returned a draw, which raised alpha of the root to Draw; the second
\* child was called with the narrowed window (Loss, Draw), reached its own
\* loop, and left it by the cutoff when its window closed
WindowsOpenWitness ==
    /\ outcome.solved
    /\ solves = 1
    /\ work_count = outcome.nodes
    /\ outcome.path = "negamax"
    /\ LoopRuns(RootEngine, ab_new)
    /\ Len(NodeMoves(RootEngine, ab_new)) > 1
    /\ score_flip(FirstChild.score) \in {Draw, DrawOrWin}
    /\ LoopCut([FirstChild.engine EXCEPT
                    !.position = NodeMoves(RootEngine, ab_new)[2].new_position],
               ab_flip(AlphaBeta(Draw, Win)))
    /\ outcome.window_ok

TrueOf(score, v) ==
    /\ is_exact(score) => v = score
    /\ score = DrawOrWin => v \in {Draw, Win}
    /\ score = DrawOrLoss => v \in {Draw, Loss}

StoresAreTrue ==
    (outcome.solved /\ LegalRoot(outcome.root)) =>
        \A s \in outcome.stores :
            /\ TrueOf(s.score, GameValue(s.position))
            /\ s.merged => s.best # Win

\* a solve on a legal root stored a DrawOrWin for one position and, for
\* another one that the table had a DrawOrLoss for, merged the DrawOrLoss
\* with a best_score of Draw or better into the exact score Draw
StoresAreTrueWitness ==
    /\ outcome.solved
    /\ LegalRoot(outcome.root)
    /\ \E s \in outcome.stores : s.score = DrawOrWin
    /\ \E s \in outcome.stores :
            s.merged /\ s.best >= Draw /\ s.score = Draw /\ GameValue(s.position) = Draw

(***************************************************************************)
(* autofinish_score on cells.  The playable moves handed to it are drop    *)
(* sites of the position; a column has as many empty cells left as the     *)
(* board is high minus its stack.                                          *)
(***************************************************************************)
EmptyLeft(p, c) == BOARD_HEIGHT - StackHeight(p, c \div BIT_HEIGHT)

Informative(p, playable) == autofinish_score(p, playable) # Unknown

\* C26 as stated: whenever some playable column has an even number of empty
\* cells left, autofinish_score returns Unknown; and it never returns Draw,
\* DrawOrWin or Win.
AutofinishAsStated ==
    \A playable \in SUBSET DropSites(position) :
        /\ (\E c \in playable : EmptyLeft(position, c) % 2 = 0)
                => ~Informative(position, playable)
        /\ autofinish_score(position, playable) \in {Unknown, Loss, DrawOrLoss}

(***************************************************************************)
(* C26 amended: whenever some playable column has an odd number of empty   *)
(* cells left (its drop site is on the second, fourth or sixth row),       *)
(* autofinish_score returns Unknown; and it never returns Draw, DrawOrWin  *)
(* or Win.                                                                 *)
(***************************************************************************)
Autofinish ==
    \A playable \in SUBSET DropSites(position) :
        /\ (\E c \in playable : EmptyLeft(position, c) % 2 = 1)
                => ~Informative(position, playable)
        /\ autofinish_score(position, playable) \in {Unknown, Loss, DrawOrLoss}

\* drops have led to a position whose unblocked moves have a column with an
\* odd number of empty cells left, for which autofinish_score returns
\* Unknown, while for the unblocked moves in the columns with an even number
\* left it returns Loss or DrawOrLoss
AutofinishWitness ==
    /\ hist # << >>
    /\ \E c \in UnblockedCells(position) : EmptyLeft(position, c) % 2 = 1
    /\ \E c \in UnblockedCells(position) : EmptyLeft(position, c) % 2 = 0
    /\ ~Informative(position, UnblockedCells(position))
    /\ Informative(position, {c \in UnblockedCells(position) : EmptyLeft(position, c) % 2 = 0})

(***************************************************************************)
(* C27: for every ply asked of find_positions_to_solve, a position that    *)
(* explore_tree hands to the callback has that many discs and no four in   *)
(* a row of either player, and so has the position the callback inserts,   *)
(* which moreover is normalized: its code is not below the code of its     *)
(* mirror image, so that normalize() gives it back.                        *)
(***************************************************************************)
Fourless(p, n) ==
    /\ Cardinality(Discs(p)) = n
    /\ p.current \cap p.other = {}
    /\ ~FourInRow(p.current)
    /\ ~FourInRow(p.other)

LeavesToSolve ==
    hist.called =>
        /\ Fourless(hist.position, hist.ply)
        /\ \A q \in hist.set :
            /\ Fourless(q, hist.ply)
            /\ ~Below(to_position_code(q), to_position_code(Mirrored(q)))
            /\ normalize(q) = q

\* at the greatest ply the callback was handed a position that is not
\* normalized, in which the player who moved last has three in a row, and
\* inserted its mirror image
LeavesToSolveWitness ==
    /\ hist.called
    /\ hist.ply = MaxPly
    /\ hist.set = {Mirrored(hist.position)}
    /\ hist.position \notin hist.set
    /\ \E line \in FourLines : Cardinality(line \cap hist.position.other) = 3

(***************************************************************************)
(* C28: after any stores and resets, in every slot of the table a recent   *)
(* entry is there only beside an expensive entry, and the two never have   *)
(* the same key.                                                           *)
(***************************************************************************)
entry_key(entry) == BitAnd(entry, trans_table.key_mask)

SlotKeysDiffer ==
    \A index \in UsedSlots \cup DOMAIN trans_table.slots :
        slot_at(trans_table, index).recent # Zero =>
            /\ slot_at(trans_table, index).expensive # Zero
            /\ entry_key(slot_at(trans_table, index).expensive)
                    # entry_key(slot_at(trans_table, index).recent)

\* a code was stored beside the expensive entry of another code and then
\* stored again with a work that promotes it: the slot holds it once, as
\* the expensive entry, and the other code as the recent entry
SlotKeysDifferWitness ==
    /\ Len(hist) = 3
    /\ hist[2].code = hist[3].code
    /\ hist[1].code # hist[2].code /\ hist[1].index = hist[2].index
    /\ slot_at(trans_table, hist[3].index).recent # Zero
    /\ entry_key(slot_at(trans_table, hist[3].index).expensive) = hist[3].key
    /\ entry_key(slot_at(trans_table, hist[3].index).recent) = hist[1].key
    /\ hist[1].key # hist[3].key /\ hist[1].key # Zero /\ hist[3].key # Zero

====
